---- MODULE Spec2Model ----
(***************************************************************************)
(* Model of the OPC UA log receiver: the LogRecord binary codec            *)
(* (receiver/opcua/log_record_type.go) and the record retriever            *)
(* (receiver/opcua/client.go, get_records.go).                             *)
(*                                                                         *)
(* Integers wider than 31 bits are kept as little-endian byte sequences of *)
(* their width (the order ua.Buffer puts them on the wire); 32-bit values  *)
(* that are compared are kept as the int32 reading of their bit pattern.   *)
(***************************************************************************)
EXTENDS Integers, Sequences, FiniteSets, TLC

\* ------------------------------------------------------------ bounds
MaxSources == 2
MaxN == 3
MaxM == 2
MaxRecordsArg == 6
\* Calls to one source when it is the only one; every further source of
\* the retrieval takes one off.
MaxCalls == 5
MaxCut == 2
MaxSeverity == 1001

\* ------------------------------------------------------------ bytes
Byte == 0..255

Zeros(n) == [i \in 1..n |-> 0]

Reverse(s) == [i \in 1..Len(s) |-> s[Len(s) + 1 - i]]

\* ua.Buffer writers: fixed-width little-endian integers.
U16Bytes(x) == <<x % 256, (x \div 256) % 256>>

\* x is the int32 reading of the 32-bit pattern (floor division gives the
\* two's complement bytes of a negative x).
U32Bytes(x) ==
  <<x % 256, (x \div 256) % 256, (x \div 65536) % 256, (x \div 16777216) % 256>>

U16Of(b) == b[1] + 256 * b[2]

I32Of(b) ==
  b[1] + 256 * b[2] + 65536 * b[3]
    + 16777216 * (IF b[4] >= 128 THEN b[4] - 256 ELSE b[4])

\* ua.Buffer.WriteString: the empty string is written as the null length
\* 0xFFFFFFFF, any other as a 4-byte length and the bytes.
WriteString(s) ==
  IF s = <<>> THEN <<255, 255, 255, 255>> ELSE U32Bytes(Len(s)) \o s

\* ua.Buffer readers. A buffer is [b, pos, err]; pos counts the bytes
\* consumed. A read returns [v, buf]: the value and the buffer afterwards.
\* After an error every read returns zero and changes nothing.
NewBuffer(b) == [b |-> b, pos |-> 0, err |-> FALSE]

ReadN(buf, n) ==
  IF buf.err THEN [v |-> Zeros(n), buf |-> buf]
  ELSE IF buf.pos + n > Len(buf.b)
       THEN [v |-> Zeros(n), buf |-> [buf EXCEPT !.err = TRUE]]
       ELSE [v |-> SubSeq(buf.b, buf.pos + 1, buf.pos + n),
             buf |-> [buf EXCEPT !.pos = buf.pos + n]]

ReadByte(buf) == [ReadN(buf, 1) EXCEPT !.v = @[1]]

ReadUint16(buf) == [ReadN(buf, 2) EXCEPT !.v = U16Of(@)]

ReadUint32(buf) == [ReadN(buf, 4) EXCEPT !.v = I32Of(@)]

ReadInt64(buf) == ReadN(buf, 8)

EmptyOnError(d) == [d EXCEPT !.v = IF d.buf.err THEN <<>> ELSE @]

\* ua.Buffer.ReadString after its length n was read: length 0xFFFFFFFF
\* (int32 -1) is the null string; a length beyond the buffer is an
\* unexpected EOF.
ReadStringData(n) ==
  IF n.buf.err \/ n.v = -1 THEN [v |-> <<>>, buf |-> n.buf]
  ELSE IF n.v < 0 \/ n.buf.pos + n.v > Len(n.buf.b)
       THEN [v |-> <<>>, buf |-> [n.buf EXCEPT !.err = TRUE]]
  ELSE EmptyOnError(ReadN(n.buf, n.v))

ReadString(buf) == ReadStringData(ReadUint32(buf))

\* ------------------------------------------------------------ int64
\* 64-bit integers as 8 little-endian bytes, two's complement.
RECURSIVE AddCarry(_, _, _, _)
AddCarry(a, b, i, c) ==
  IF i > 8 THEN <<>>
  ELSE <<(a[i] + b[i] + c) % 256>> \o AddCarry(a, b, i + 1, (a[i] + b[i] + c) \div 256)

Add64(a, b) == AddCarry(a, b, 1, 0)

One64 == <<1, 0, 0, 0, 0, 0, 0, 0>>

Neg64(a) == Add64([i \in 1..8 |-> 255 - a[i]], One64)

Sub64(a, b) == Add64(a, Neg64(b))

IsZero64(a) == a = Zeros(8)

IsNeg64(a) == a[8] >= 128

RECURSIVE MulCarry(_, _, _, _)
MulCarry(a, k, i, c) ==
  IF i > 8 THEN <<>>
  ELSE <<(a[i] * k + c) % 256>> \o MulCarry(a, k, i + 1, (a[i] * k + c) \div 256)

\* a * k with int64 wrap-around (0 < k < 2^16 for either sign of a).
Mul64(a, k) == MulCarry(a, k, 1, 0)

\* Quotient digits of a non-negative a by k, most significant digit first.
RECURSIVE DivDigits(_, _, _, _)
DivDigits(a, k, i, r) ==
  IF i < 1 THEN <<>>
  ELSE <<(r * 256 + a[i]) \div k>> \o DivDigits(a, k, i - 1, (r * 256 + a[i]) % k)

\* Go's int64 division: the quotient is truncated toward zero.
Div64(a, k) ==
  IF IsNeg64(a) THEN Neg64(Reverse(DivDigits(Neg64(a), k, 8, 0)))
  ELSE Reverse(DivDigits(a, k, 8, 0))

\* ------------------------------------------------------------ time
\* A time.Time is its UnixNano() as an int64; ZeroTime is the unset instant
\* time.Time{}, whose UnixNano() is -62135596800 * 10^9 wrapped to 64 bits.
ZeroTime == [zero |-> TRUE, nanos |-> <<0, 0, 26, 61, 235, 3, 178, 161>>]

UnixTime(n) == [zero |-> FALSE, nanos |-> n]

unixToOpcuaTicksOffset == <<0, 128, 62, 213, 222, 177, 157, 1>>

NanosPerTick == 100

\* Encode, step 1: ticks := l.Time.UnixNano()/100 + unixToOpcuaTicksOffset.
TimeToTicks(t) == Add64(Div64(t.nanos, NanosPerTick), unixToOpcuaTicksOffset)

\* Decode, step 1: a tick count that is not positive leaves l.Time as it was.
TicksToTime(ticks, old) ==
  IF ~IsNeg64(ticks) /\ ~IsZero64(ticks)
  THEN UnixTime(Mul64(Sub64(ticks, unixToOpcuaTicksOffset), NanosPerTick))
  ELSE old

\* ------------------------------------------------------------ NodeID
\* ua.NodeID: mask is its Type(), ns its Namespace(), nid its IntID() (0 for
\* every non-numeric type), sid its StringID(). NilNodeID is the nil pointer.
NilNodeID == [mask |-> "nil", ns |-> 0, nid |-> 0, sid |-> <<>>]

NewNumericNodeID(ns, id) == [mask |-> "Numeric", ns |-> ns, nid |-> id, sid |-> <<>>]

NewStringNodeID(ns, s) == [mask |-> "String", ns |-> ns, nid |-> 0, sid |-> s]

\* The identifier read after namespace ns.
NumericAfter(ns, id) == [id EXCEPT !.v = NewNumericNodeID(ns, @)]

StringAfter(ns, s) == [s EXCEPT !.v = NewStringNodeID(ns, @)]

FourByteAfter(ns) == NumericAfter(ns.v, ReadUint16(ns.buf))

NumericAfterNS(ns) == NumericAfter(ns.v, ReadUint32(ns.buf))

StringAfterNS(ns) == StringAfter(ns.v, ReadString(ns.buf))

\* readNodeIDFromBuffer after the encoding byte enc was read: dispatch on
\* its low nibble.
NodeIDAfter(enc) ==
  CASE enc.v % 16 = 0 -> NumericAfter(0, ReadByte(enc.buf))
    [] enc.v % 16 = 1 -> FourByteAfter(ReadByte(enc.buf))
    [] enc.v % 16 = 2 -> NumericAfterNS(ReadUint16(enc.buf))
    [] enc.v % 16 = 3 -> StringAfterNS(ReadUint16(enc.buf))
    [] OTHER -> [v |-> NewNumericNodeID(0, 0), buf |-> enc.buf]

readNodeIDFromBuffer(buf) == NodeIDAfter(ReadByte(buf))

\* writeNodeIDToBuffer: nil, or namespace 0 with IntID() 0, is written as the
\* null NodeId; a uint32 id is at most k iff its int32 reading is in 0..k.
writeNodeIDToBuffer(nodeID) ==
  IF nodeID.mask = "nil" THEN <<0, 0>>
  ELSE IF nodeID.ns = 0 /\ nodeID.nid = 0 THEN <<0, 0>>
  ELSE IF nodeID.mask = "String"
       THEN <<3>> \o U16Bytes(nodeID.ns) \o WriteString(nodeID.sid)
  ELSE IF nodeID.ns = 0 /\ nodeID.nid >= 0 /\ nodeID.nid <= 255
       THEN <<0, nodeID.nid % 256>>
  ELSE IF nodeID.ns <= 255 /\ nodeID.nid >= 0 /\ nodeID.nid <= 65535
       THEN <<1, nodeID.ns % 256>> \o U16Bytes(nodeID.nid)
  ELSE <<2>> \o U16Bytes(nodeID.ns) \o U32Bytes(nodeID.nid)

\* ------------------------------------------------------------ Variant
\* An attribute value (a Go interface{}) is [t, v]: t the dynamic type, v the
\* bytes of a string, <<1>> or <<0>> for a bool, or the little-endian bit
\* pattern of a number of that width. NilValue is the nil interface.
NilValue == [t |-> "nil", v |-> <<>>]

Val(t, v) == [t |-> t, v |-> v]

ReadFixed(buf, t, n) == [ReadN(buf, n) EXCEPT !.v = Val(t, @)]

\* readVariantValue after the type byte tb was read: its low 6 bits select
\* the reader.
VariantAfter(tb) ==
  CASE tb.v % 64 = 1 ->
         [ReadByte(tb.buf) EXCEPT !.v = Val("bool", <<IF @ # 0 THEN 1 ELSE 0>>)]
    [] tb.v % 64 = 2 -> ReadFixed(tb.buf, "int8", 1)
    [] tb.v % 64 = 3 -> ReadFixed(tb.buf, "uint8", 1)
    [] tb.v % 64 = 4 -> ReadFixed(tb.buf, "int16", 2)
    [] tb.v % 64 = 5 -> ReadFixed(tb.buf, "uint16", 2)
    [] tb.v % 64 = 6 -> ReadFixed(tb.buf, "int32", 4)
    [] tb.v % 64 = 7 -> ReadFixed(tb.buf, "uint32", 4)
    [] tb.v % 64 = 8 -> ReadFixed(tb.buf, "int64", 8)
    [] tb.v % 64 = 9 -> ReadFixed(tb.buf, "uint64", 8)
    [] tb.v % 64 = 10 -> ReadFixed(tb.buf, "float32", 4)
    [] tb.v % 64 = 11 -> ReadFixed(tb.buf, "float64", 8)
    [] tb.v % 64 = 12 -> [ReadString(tb.buf) EXCEPT !.v = Val("string", @)]
    [] OTHER -> [v |-> NilValue, buf |-> tb.buf]

readVariantValue(buf) == VariantAfter(ReadByte(buf))

\* writeVariantValue: a type switch; an int is written as Int32 (its low 32
\* bits), every type without a case as the single null type byte.
writeVariantValue(value) ==
  CASE value.t = "string" -> <<12>> \o WriteString(value.v)
    [] value.t = "bool" -> <<1, IF value.v = <<1>> THEN 1 ELSE 0>>
    [] value.t = "int" -> <<6>> \o SubSeq(value.v, 1, 4)
    [] value.t = "int32" -> <<6>> \o value.v
    [] value.t = "int64" -> <<8>> \o value.v
    [] value.t = "uint32" -> <<7>> \o value.v
    [] value.t = "float64" -> <<11>> \o value.v
    [] OTHER -> <<0>>

\* ------------------------------------------------------------ LogRecord
\* A Go map is [nil, m]: m a function from the keys to the values; the nil
\* map has no keys.
NilMap == [nil |-> TRUE, m |-> <<>>]

MakeMap(m) == [nil |-> FALSE, m |-> m]

MapPut(m, k, v) == [x \in (DOMAIN m) \cup {k} |-> IF x = k THEN v ELSE m[x]]

\* The zero value &LogRecordExtObj{} that every caller decodes into.
ZeroLogRecord ==
  [Time |-> ZeroTime, Severity |-> 0, Message |-> <<>>,
   EventTypeNode |-> NilNodeID, SourceNode |-> NilNodeID, SourceName |-> <<>>,
   TraceIDBytes |-> Zeros(16), SpanID |-> Zeros(8), ParentSpanID |-> Zeros(8),
   ParentIdentifier |-> <<>>, AdditionalData |-> NilMap]

\* Decode runs on [buf, l, encodingMask, count]: the buffer, the receiver and
\* the two locals that steer it. Put stores what a read returned in field f
\* of the receiver.
DecodeStart(l, b) == [buf |-> NewBuffer(b), l |-> l, encodingMask |-> 0, count |-> 0]

Put(st, f, r) == [st EXCEPT !.buf = r.buf, !.l[f] = r.v]

\* 1. DateTime
PutTime(st, r) ==
  [st EXCEPT !.buf = r.buf, !.l.Time = TicksToTime(r.v, @)]

Decode1(st) == PutTime(st, ReadInt64(st.buf))

\* 2. Severity
Decode2(st) == Put(st, "Severity", ReadUint16(st.buf))

\* 3. EventType
Decode3(st) == Put(st, "EventTypeNode", readNodeIDFromBuffer(st.buf))

\* 4. SourceNode
Decode4(st) == Put(st, "SourceNode", readNodeIDFromBuffer(st.buf))

\* 5. SourceName
Decode5(st) == Put(st, "SourceName", ReadString(st.buf))

\* 6. Message: the mask, the locale (discarded) when bit 0 is set, the text
\* when bit 1 is set.
PutMask(st, r) == [st EXCEPT !.buf = r.buf, !.encodingMask = r.v]

ReadLocale(st) ==
  IF st.encodingMask % 2 = 1 THEN [st EXCEPT !.buf = ReadString(@).buf] ELSE st

ReadText(st) ==
  IF (st.encodingMask \div 2) % 2 = 1 THEN Put(st, "Message", ReadString(st.buf))
  ELSE st

Decode6(st) == ReadText(ReadLocale(PutMask(st, ReadByte(st.buf))))

\* 7. TraceContext: Data1, Data2, Data3 land in TraceIDBytes as they were
\* on the wire, Data4 byte by byte; then SpanID, ParentSpanID and
\* ParentIdentifier.
PutTraceBytes(st, i, r) ==
  [st EXCEPT !.buf = r.buf,
             !.l.TraceIDBytes =
                [j \in 1..16 |-> IF j >= i /\ j < i + Len(r.v) THEN r.v[j - i + 1]
                                 ELSE @[j]]]

ReadData123(st, i, n) == PutTraceBytes(st, i, ReadN(st.buf, n))

RECURSIVE ReadData4(_, _)
ReadData4(st, i) ==
  IF i > 16 THEN st ELSE ReadData4(PutTraceBytes(st, i, ReadN(st.buf, 1)), i + 1)

ReadSpanID(st) == Put(st, "SpanID", ReadInt64(st.buf))

ReadParentSpanID(st) == Put(st, "ParentSpanID", ReadInt64(st.buf))

ReadParentIdentifier(st) == Put(st, "ParentIdentifier", ReadString(st.buf))

Decode7(st) ==
  ReadParentIdentifier(ReadParentSpanID(ReadSpanID(
    ReadData4(ReadData123(ReadData123(ReadData123(st, 1, 4), 5, 2), 7, 2), 9))))

\* 8. AdditionalData: count name/value pairs into a fresh map when count > 0;
\* an empty name is dropped, a repeated name overwrites.
PutCount(st, r) == [st EXCEPT !.buf = r.buf, !.count = r.v]

ValueAfter(name) == [readVariantValue(name.buf) EXCEPT !.v = <<name.v, @>>]

PutPair(st, r) ==
  [st EXCEPT !.buf = r.buf,
             !.l.AdditionalData =
                IF r.v[1] # <<>> THEN MakeMap(MapPut(@.m, r.v[1], r.v[2])) ELSE @]

RECURSIVE readNameValuePairs(_, _)
readNameValuePairs(st, i) ==
  IF i <= 0 THEN st
  ELSE readNameValuePairs(PutPair(st, ValueAfter(ReadString(st.buf))), i - 1)

\* The loop reads past the end of a short buffer count times; the reads
\* after the first error return zero values and store nothing, so the loop
\* is cut at the bytes the buffer can hold.
ClampCount(buf, count) ==
  IF count > Len(buf.b) + 1 THEN Len(buf.b) + 1 ELSE count

\* A loop that runs for every count that is not zero, the negative ones as
\* the unsigned values they were read from.
ReadPairsUnsigned(st) ==
  IF st.count # 0
  THEN readNameValuePairs([st EXCEPT !.l.AdditionalData = MakeMap(<<>>)],
                          Len(st.buf.b) + 1)
  ELSE st

\* count := int32(buf.ReadUint32()); if count > 0 { make the map, read }
ReadPairs(st) ==
  IF st.count > 0
  THEN readNameValuePairs([st EXCEPT !.l.AdditionalData = MakeMap(<<>>)],
                          ClampCount(st.buf, st.count))
  ELSE st

Decode8(st) == ReadPairs(PutCount(st, ReadUint32(st.buf)))

\* A Decode that reports the length of its input.
DecodeReturnInputLength(st) == [n |-> Len(st.buf.b), err |-> st.buf.err, l |-> st.l]

\* return buf.Pos(), buf.Error()
DecodeReturn(st) == [n |-> st.buf.pos, err |-> st.buf.err, l |-> st.l]

\* (*LogRecordExtObj).Decode(b): returns the bytes consumed, the buffer's
\* error and the receiver's fields afterwards.
Decode(l, b) ==
  DecodeReturn(Decode8(Decode7(Decode6(Decode5(Decode4(Decode3(Decode2(Decode1(
    DecodeStart(l, b))))))))))

\* Encode, step 8: the pairs in the order the map iteration yields them.
RECURSIVE writeNameValuePairs(_, _)
writeNameValuePairs(m, order) ==
  IF order = <<>> THEN <<>>
  ELSE WriteString(Head(order)) \o writeVariantValue(m[Head(order)])
         \o writeNameValuePairs(m, Tail(order))

\* (*LogRecordExtObj).Encode(): order is the order in which the range over
\* the AdditionalData map visits its keys.
Encode(l, order) ==
  TimeToTicks(l.Time)
    \o U16Bytes(l.Severity)
    \o writeNodeIDToBuffer(l.EventTypeNode)
    \o writeNodeIDToBuffer(l.SourceNode)
    \o WriteString(l.SourceName)
    \o <<2>> \o WriteString(l.Message)
    \o U32Bytes(I32Of(SubSeq(l.TraceIDBytes, 1, 4)))
    \o U16Bytes(U16Of(SubSeq(l.TraceIDBytes, 5, 6)))
    \o U16Bytes(U16Of(SubSeq(l.TraceIDBytes, 7, 8)))
    \o SubSeq(l.TraceIDBytes, 9, 16)
    \o l.SpanID
    \o l.ParentSpanID
    \o WriteString(l.ParentIdentifier)
    \o U32Bytes(Cardinality(DOMAIN l.AdditionalData.m))
    \o writeNameValuePairs(l.AdditionalData.m, order)

\* The orders a range over map m can take.
MapOrders(m) ==
  {o \in [1..Cardinality(DOMAIN m) -> DOMAIN m] :
     \A i, j \in DOMAIN o : i # j => o[i] # o[j]}

\* ------------------------------------------------------------ text
\* Text is a sequence of bytes (UTF-8).
HexDigit(n) == IF n < 10 THEN 48 + n ELSE 87 + n

\* hex.EncodeToString: two lowercase digits per byte, in order.
HexEncode(b) ==
  [i \in 1..(2 * Len(b)) |->
     IF i % 2 = 1 THEN HexDigit(b[(i + 1) \div 2] \div 16)
     ELSE HexDigit(b[i \div 2] % 16)]

\* Remainder of a non-negative 64-bit a by k.
RECURSIVE Rem64(_, _, _, _)
Rem64(a, k, i, r) == IF i < 1 THEN r ELSE Rem64(a, k, i - 1, (r * 256 + a[i]) % k)

RECURSIVE DecimalDigits(_)
DecimalDigits(a) ==
  IF IsZero64(a) THEN <<>>
  ELSE DecimalDigits(Reverse(DivDigits(a, 10, 8, 0))) \o <<48 + Rem64(a, 10, 8, 0)>>

\* fmt.Sprintf("%d", id) of a uint32 given by the int32 reading of its bits.
FormatUint32(x) ==
  IF x = 0 THEN <<48>> ELSE DecimalDigits(U32Bytes(x) \o Zeros(4))

\* A TraceIDHex that ignores the span id.
TraceIDHexAlways(l) == HexEncode(l.TraceIDBytes)

\* TraceIDHex / SpanIDHex: empty when SpanID is 0; "%016x" prints the
\* uint64 most significant byte first.
TraceIDHex(l) == IF IsZero64(l.SpanID) THEN <<>> ELSE HexEncode(l.TraceIDBytes)

SpanIDHex(l) == IF IsZero64(l.SpanID) THEN <<>> ELSE HexEncode(Reverse(l.SpanID))

\* ------------------------------------------------------------ severity
\* (*Transformer).mapSeverity: the switch over the Part 26 ranges; a
\* plog.SeverityNumber is kept by its name.
mapSeverity(opcuaSeverity) ==
  CASE opcuaSeverity >= 1 /\ opcuaSeverity <= 50 -> "SeverityNumberDebug"
    [] opcuaSeverity >= 51 /\ opcuaSeverity <= 100 -> "SeverityNumberInfo"
    [] opcuaSeverity >= 101 /\ opcuaSeverity <= 150 -> "SeverityNumberInfo4"
    [] opcuaSeverity >= 151 /\ opcuaSeverity <= 200 -> "SeverityNumberWarn"
    [] opcuaSeverity >= 201 /\ opcuaSeverity <= 250 -> "SeverityNumberError"
    [] opcuaSeverity >= 251 /\ opcuaSeverity <= 300 -> "SeverityNumberError2"
    [] opcuaSeverity >= 301 /\ opcuaSeverity <= 400 -> "SeverityNumberError3"
    [] opcuaSeverity >= 401 /\ opcuaSeverity <= 1000 -> "SeverityNumberFatal"
    [] OTHER -> "SeverityNumberUnspecified"

\* c.getMinSeverityValue(): the numeric threshold for the configured
\* Filter.MinSeverity, passed to the server as the minSeverity argument.
getMinSeverityValue(level) ==
  CASE level = "Trace" -> 51
    [] level = "Debug" -> 1
    [] level = "Info" -> 101
    [] level \in {"Warn", "Warning"} -> 201
    [] level = "Error" -> 301
    [] level \in {"Fatal", "Emergency"} -> 401
    [] OTHER -> 101

\* The level names of the configuration: the documented options, the two
\* aliases the switch accepts, an unknown name and the unset string.
SampleLevels ==
  {"Trace", "Debug", "Info", "Warn", "Warning", "Error", "Fatal", "Emergency",
   "Verbose", ""}

\* A severityToText whose Warning tier starts one value late.
severityToTextLateWarning(severity) ==
  CASE severity >= 1 /\ severity <= 50 -> "Debug"
    [] severity >= 51 /\ severity <= 100 -> "Information"
    [] severity >= 101 /\ severity <= 151 -> "Notice"
    [] severity >= 152 /\ severity <= 200 -> "Warning"
    [] severity >= 201 /\ severity <= 250 -> "Error"
    [] severity >= 251 /\ severity <= 300 -> "Critical"
    [] severity >= 301 /\ severity <= 400 -> "Alert"
    [] severity >= 401 /\ severity <= 1000 -> "Emergency"
    [] OTHER -> "Unspecified"

\* severityToText: the same ranges, to the text label.
severityToText(severity) ==
  CASE severity >= 1 /\ severity <= 50 -> "Debug"
    [] severity >= 51 /\ severity <= 100 -> "Information"
    [] severity >= 101 /\ severity <= 150 -> "Notice"
    [] severity >= 151 /\ severity <= 200 -> "Warning"
    [] severity >= 201 /\ severity <= 250 -> "Error"
    [] severity >= 251 /\ severity <= 300 -> "Critical"
    [] severity >= 301 /\ severity <= 400 -> "Alert"
    [] severity >= 401 /\ severity <= 1000 -> "Emergency"
    [] OTHER -> "Unspecified"

\* ------------------------------------------------------------ records
\* nodeIDComponents: namespace, identifier type and identifier text.
nodeIDComponents(nodeID) ==
  CASE nodeID.mask = "nil" -> [namespace |-> 0, idType |-> "", id |-> <<>>]
    [] nodeID.mask = "String" ->
         [namespace |-> nodeID.ns, idType |-> "String", id |-> nodeID.sid]
    [] OTHER ->
         [namespace |-> nodeID.ns, idType |-> "Numeric",
          id |-> FormatUint32(nodeID.nid)]

\* The zero value testdata.OPCUALogRecord{} returned beside an error.
ZeroRecord ==
  [Timestamp |-> ZeroTime, Severity |-> 0, Message |-> <<>>, SourceName |-> <<>>,
   SourceNamespace |-> 0, SourceIDType |-> "", SourceID |-> <<>>,
   TraceID |-> <<>>, SpanID |-> <<>>, TraceFlags |-> 0, Attributes |-> NilMap]

\* A conversion that takes a non-zero trace id for the sign of a trace
\* context.
RecordOfByTraceID(lr, c) ==
  [Timestamp |-> lr.Time, Severity |-> lr.Severity, Message |-> lr.Message,
   SourceName |-> lr.SourceName,
   SourceNamespace |-> c.namespace, SourceIDType |-> c.idType, SourceID |-> c.id,
   TraceID |-> IF lr.TraceIDBytes # Zeros(16) THEN HexEncode(lr.TraceIDBytes)
               ELSE <<>>,
   SpanID |-> IF lr.TraceIDBytes # Zeros(16) THEN HexEncode(Reverse(lr.SpanID))
              ELSE <<>>,
   TraceFlags |-> IF lr.TraceIDBytes # Zeros(16) THEN 1 ELSE 0,
   Attributes |-> MakeMap(lr.AdditionalData.m)]

\* The record literal of logRecordExtObjToRecord and the fields set after
\* it: the trace context when lr.SpanID != 0, the attributes.
RecordOf(lr, c) ==
  [Timestamp |-> lr.Time, Severity |-> lr.Severity, Message |-> lr.Message,
   SourceName |-> lr.SourceName,
   SourceNamespace |-> c.namespace, SourceIDType |-> c.idType, SourceID |-> c.id,
   TraceID |-> IF ~IsZero64(lr.SpanID) THEN TraceIDHex(lr) ELSE <<>>,
   SpanID |-> IF ~IsZero64(lr.SpanID) THEN SpanIDHex(lr) ELSE <<>>,
   TraceFlags |-> IF ~IsZero64(lr.SpanID) THEN 1 ELSE 0,
   Attributes |-> MakeMap(lr.AdditionalData.m)]

\* logRecordExtObjToRecord: the canonical record of a decoded LogRecord.
logRecordExtObjToRecord(lr) == RecordOf(lr, nodeIDComponents(lr.SourceNode))

\* A *ua.ExtensionObject is [kind, lr, raw]: kind tells what obj.Value holds
\* ("nilobj" is the nil pointer itself, "nilvalue" a nil Value, "other" a
\* value of any other type).
ExtObj(kind, lr, raw) == [kind |-> kind, lr |-> lr, raw |-> raw]

StructObj(lr) == ExtObj("LogRecordExtObj", lr, <<>>)

RawObj(raw) == ExtObj("bytes", ZeroLogRecord, raw)

OtherObj(kind) == ExtObj(kind, ZeroLogRecord, <<>>)

\* The fallback after lr.Decode(raw) returned d.
RecordOfDecode(d) ==
  IF d.err THEN [err |-> TRUE, rec |-> ZeroRecord]
  ELSE [err |-> FALSE, rec |-> logRecordExtObjToRecord(d.l)]

\* parseLogRecordFromExtensionObject: the registered type, else the manual
\* decode of a non-empty raw body, else an error.
parseLogRecordFromExtensionObject(obj) ==
  IF obj.kind = "LogRecordExtObj"
  THEN [err |-> FALSE, rec |-> logRecordExtObjToRecord(obj.lr)]
  ELSE IF obj.kind = "bytes" /\ Len(obj.raw) > 0
  THEN RecordOfDecode(Decode(ZeroLogRecord, obj.raw))
  ELSE [err |-> TRUE, rec |-> ZeroRecord]

\* A parser that keeps the zero record of an entry that failed.
AppendParsedAlways(result, p) == Append(result, p.rec)

\* result = append(result, record), unless the parse failed.
AppendParsed(result, p) == IF p.err THEN result ELSE Append(result, p.rec)

\* parseExtensionObjectArray: nil objects and objects that fail to parse are
\* skipped; the error returned is always nil.
RECURSIVE parseObjectsFrom(_, _, _)
parseObjectsFrom(objects, i, result) ==
  IF i > Len(objects) THEN result
  ELSE IF objects[i].kind = "nilobj" THEN parseObjectsFrom(objects, i + 1, result)
  ELSE parseObjectsFrom(objects, i + 1,
         AppendParsed(result, parseLogRecordFromExtensionObject(objects[i])))

parseExtensionObjectArray(objects) ==
  [err |-> FALSE, result |-> parseObjectsFrom(objects, 1, <<>>)]

\* ------------------------------------------------------------ server
\* The remote side of c.client.Call. A continuation point is opaque to the
\* client; the server writes the next offset into it as 4 little-endian
\* bytes and reads it back.
CPBytes(offset) == U32Bytes(offset)

CPOffset(cp) == IF Len(cp) >= 4 THEN I32Of(cp) ELSE 0

\* 2025-01-15T10:00:00Z
SampleTime == UnixTime(<<0, 64, 223, 153, 92, 213, 26, 24>>)

\* The record the server holds for source src at position id: the position
\* is its severity and the source its name, so a record tells where it came
\* from.
SampleLogRecord(src, id) ==
  [ZeroLogRecord EXCEPT !.Time = SampleTime, !.Severity = id,
                        !.SourceName = <<64 + src>>, !.Message = <<109>>]

ObjectKinds == {"struct", "raw", "truncated", "nilvalue", "nilobj"}

\* The ExtensionObject the client library hands over for that record: the
\* registered type decoded by the library, the raw body when the type id
\* did not match, a body cut short, or no value at all.
ObjectOfBody(body, kind) ==
  CASE kind = "struct" -> StructObj(Decode(ZeroLogRecord, body).l)
    [] kind = "raw" -> RawObj(body)
    [] kind = "truncated" -> RawObj(SubSeq(body, 1, Len(body) - 3))
    [] kind = "nilobj" -> OtherObj("nilobj")
    [] OTHER -> OtherObj("nilvalue")

MakeSampleObject(src, id, kind) ==
  ObjectOfBody(Encode(SampleLogRecord(src, id), <<>>), kind)

SampleObject ==
  [src \in 1..MaxSources, id \in 1..MaxN, kind \in ObjectKinds |->
     MakeSampleObject(src, id, kind)]

\* What a server does with a request: "clean" keeps to MaxReturnRecords
\* and sends every record decodable, "mixed" keeps to it and sends some
\* records that do not decode, "greedy" sends decodable records and
\* ignores MaxReturnRecords.
Flavours == {"clean", "mixed", "greedy"}

KindAt(flavour, id) ==
  IF flavour # "mixed" THEN (IF id % 2 = 1 THEN "struct" ELSE "raw")
  ELSE CASE id % 4 = 1 -> "truncated"
         [] id % 4 = 2 -> "raw"
         [] id % 4 = 3 -> "nilvalue"
         [] OTHER -> "struct"

\* The objects of positions off+1 .. off+k of source src.
PageObjects(src, flavour, off, k) ==
  [j \in 1..k |-> SampleObject[src, off + j, KindAt(flavour, off + j)]]

Min(a, b) == IF a < b THEN a ELSE b

\* getFilteredRecords: the page a server holding n records for source src
\* returns for a request (MaxReturnRecords maxReturn, continuation point
\* cp). The records from the offset of cp on are cut to maxReturn when
\* maxReturn > 0, and a continuation point with the next offset goes out
\* when records were cut off. A server may cap its pages itself: m > 0 is
\* that cap, m = 0 is no cap of its own.
PageLimit(m, maxReturn) ==
  IF maxReturn > 0 /\ m > 0 THEN Min(m, maxReturn)
  ELSE IF maxReturn > 0 THEN maxReturn ELSE m

PageFrom(src, flavour, n, startIndex, limit) ==
  IF startIndex >= n THEN [objects |-> <<>>, cp |-> <<>>]
  ELSE IF limit > 0 /\ n - startIndex > limit
       THEN [objects |-> PageObjects(src, flavour, startIndex, limit),
             cp |-> CPBytes(startIndex + limit)]
       ELSE [objects |-> PageObjects(src, flavour, startIndex, n - startIndex),
             cp |-> <<>>]

getFilteredRecords(src, flavour, n, m, maxReturn, cp) ==
  PageFrom(src, flavour, n, CPOffset(cp),
           PageLimit(m, IF flavour = "greedy" THEN 0 ELSE maxReturn))

\* ------------------------------------------------------------ state
VARIABLES
  client,             \* c.client: "nil" or "open"
  logObjectIDs,       \* c.logObjectIDs
  pc,                 \* GetRecords: "idle", "calling" (a Call is out), "returned"
  gClient,            \* GetRecords: client, snapshotted under the mutex
  gIDs,               \* GetRecords: logObjectIDs, snapshotted under the mutex
  maxRecords,         \* GetRecords: the maxRecords argument
  recordsPerNode,     \* GetRecords: the quota of every source
  idx,                \* GetRecords: position of the source in the range loop
  continuationPoint,  \* GetRecords: continuationPoint of the pagination loop
  nodeRecords,        \* GetRecords: records taken from the current source
  allRecords,         \* GetRecords: allRecords
  retErr,             \* GetRecords: the error returned
  callCP,             \* callGetRecordsMethod: continuationPoint of the frame
  callMax,            \* callGetRecordsMethod: maxRecords of the frame
  depth,              \* callGetRecordsMethod: 1, or 2 in the recursive call
  cancelled,          \* ctx is cancelled or past its deadline
  srvN,               \* server: records the current source holds in the window
  srvM,               \* server: its own cap on a page, 0 for none
  srvFlavour,         \* server: how it encodes the records
  nCalls,             \* history: Calls issued to each source
  srcState,           \* history: "Idle", "Requesting", "Done", "Failed"
  staleSeen,          \* history: stale answers given to each source
  staleTwice,         \* history: the recursive call of the source was answered stale
  recPage,            \* history: for each element of allRecords, <<source, call>>
  delivered,          \* history: records of the pages of successful calls
  restarts,           \* history: restarts of the query of each source
  lastAnswer,         \* history: how the last Call was answered
  lastIssued,         \* history: <<source, continuation point>> of the last
                      \*   successful call
  kpc,                \* codec run: "off", "record", "encoded", "decoded",
                      \*   "parsed", "array", "parsedArray", "embedded";
                      \*   function run: "node", "nodeWritten", "nodeRead",
                      \*   "value", "valueWritten", "valueRead",
                      \*   "severity", "classified", "ids", "hexed",
                      \*   "wire", "wireDecoded", "time", "timeConverted",
                      \*   "level", "levelled"
  lr,                 \* codec run: the LogRecordExtObj at hand
  wire,               \* codec run: the bytes Encode returned
  decoded,            \* codec run: what Decode returned, [n, err, l]
  object,             \* codec run: the ExtensionObject parsed
  parsed,             \* codec run: what parseLogRecordFromExtensionObject returned
  objects,            \* codec run: the ExtensionObject array at hand
  parsedArray,        \* codec run: what parseExtensionObjectArray returned
  fnArg,              \* function run: the argument of the function called
  fnBytes,            \* function run: the bytes a writer put into its buffer
  fnRet,              \* function run: what the function returned
  now,                \* receiver: the host clock, in collection intervals
  lastCollectTime,    \* receiver: scraper.lastCollectTime
  sClient,            \* receiver: the scraper's client, "connected", "lost"
                      \*   (handle without a session) or "nil"
  rpos,               \* receiver: runCollection, "start", "collecting",
                      \*   "select", "done", or "crashed" (a panic ended
                      \*   the process)
  tickerC,            \* receiver: a tick waits in ticker.C
  ctxDone,            \* receiver: the context of Start is cancelled
  sdpos,              \* receiver: Shutdown, "none", "waiting" or "over"
  cycles,             \* receiver: the collectAndConsume calls, in the order
                      \*   they began
  lpos,               \* pagination loop: "off", "loop" (before a call of
                      \*   callGetRecordsMethod), "called" (a Call is out)
                      \*   or "done" (left by break)
  lRecordsPerNode,    \* pagination loop: recordsPerNode
  lNodeRecords,       \* pagination loop: nodeRecords
  lContinuationPoint, \* pagination loop: continuationPoint, 0 for nil
  lCallCP,            \* pagination loop: the continuation point of the Call
                      \*   that is out
  lCalls,             \* pagination loop: Calls sent, counted up to CallsCap
  session,            \* client calls: c.client.State() of the handle,
                      \*   "none" without a handle, else "connected" or "closed"
  lastCall,           \* client calls: the last call of Connect, Disconnect,
                      \*   IsConnected or GetRecords that returned,
                      \*   [op, ret, closed, issued]
  sinceDisconnect     \* history: a Disconnect returned nil and no Connect
                      \*   has returned nil since

cvars == <<client, logObjectIDs>>

gvars == <<pc, gClient, gIDs, maxRecords, recordsPerNode, idx, continuationPoint,
           nodeRecords, allRecords, retErr, callCP, callMax, depth>>

evars == <<cancelled, srvN, srvM, srvFlavour>>

hvars == <<nCalls, srcState, staleSeen, staleTwice, recPage, delivered,
           restarts, lastAnswer, lastIssued>>

fvars == <<fnArg, fnBytes, fnRet>>

kvars == <<kpc, lr, wire, decoded, object, parsed, objects, parsedArray, fvars>>

rvars == <<cvars, gvars, evars, hvars>>

wvars == <<now, lastCollectTime, sClient, rpos, tickerC, ctxDone, sdpos, cycles>>

lvars == <<lpos, lRecordsPerNode, lNodeRecords, lContinuationPoint, lCallCP, lCalls>>

dvars == <<session, lastCall, sinceDisconnect>>

svars == <<wvars, lvars, dvars>>

vars == <<rvars, kvars, svars>>

Sources == 1..MaxSources

NoCalls == [s \in Sources |-> 0]

AllIdle == [s \in Sources |-> "Idle"]

NoneTwice == [s \in Sources |-> FALSE]

NothingIssued == <<0, <<>>>>

\* newOPCUAClient: no client handle, no LogObject nodes.
InitRetriever ==
  /\ client = "nil" /\ logObjectIDs = <<>>
  /\ pc = "idle" /\ gClient = "nil" /\ gIDs = <<>>
  /\ maxRecords = 0 /\ recordsPerNode = 0 /\ idx = 0
  /\ continuationPoint = <<>> /\ nodeRecords = 0 /\ allRecords = <<>>
  /\ retErr = "" /\ callCP = <<>> /\ callMax = 0 /\ depth = 1
  /\ cancelled = FALSE /\ srvN = 0 /\ srvM = 0 /\ srvFlavour = "clean"
  /\ nCalls = NoCalls /\ srcState = AllIdle /\ staleSeen = NoCalls
  /\ staleTwice = NoneTwice
  /\ recPage = <<>> /\ delivered = <<>>
  /\ restarts = NoCalls /\ lastAnswer = "none" /\ lastIssued = NothingIssued

NoDecode == [n |-> 0, err |-> FALSE, l |-> ZeroLogRecord]

NoParse == [err |-> FALSE, rec |-> ZeroRecord]

NoArray == [err |-> FALSE, result |-> <<>>]

\* No codec run is under way.
CodecIdle ==
  /\ wire = <<>> /\ decoded = NoDecode
  /\ object = OtherObj("nilobj") /\ parsed = NoParse
  /\ parsedArray = NoArray

\* No function run is under way.
FnIdle == fnArg = <<>> /\ fnBytes = <<>> /\ fnRet = <<>>

\* No pagination loop is followed on its own.
LoopOff ==
  /\ lpos = "off" /\ lRecordsPerNode = 0 /\ lNodeRecords = 0
  /\ lContinuationPoint = 0 /\ lCallCP = 0 /\ lCalls = 0

\* No call of the client has returned.
NoCall == [op |-> "none", ret |-> "nil", closed |-> FALSE, issued |-> FALSE]

ClientCallsOff ==
  session = "none" /\ lastCall = NoCall /\ sinceDisconnect = FALSE

\* No receiver has been built.
ReceiverOff ==
  /\ now = 0 /\ lastCollectTime = 0 /\ sClient = "nil" /\ rpos = "off"
  /\ tickerC = FALSE /\ ctxDone = FALSE /\ sdpos = "none" /\ cycles = <<>>
  /\ LoopOff
  /\ ClientCallsOff

Init ==
  /\ InitRetriever
  /\ kpc = "off" /\ lr = ZeroLogRecord /\ objects = <<>>
  /\ CodecIdle /\ FnIdle
  /\ ReceiverOff

\* ------------------------------------------------------------ client
\* Connect, under c.mu. It fails before a client handle exists (endpoint
\* lookup, endpoint selection, opcua.NewClient), or after c.client is set
\* (the session does not come up, or neither discovery nor the ServerLog
\* fallback finds a node). c.logObjectIDs is assigned only by a discovery
\* that found n >= 1 nodes.
ConnectFailsEarly ==
  /\ pc = "idle"
  /\ UNCHANGED vars

ConnectFailsLate ==
  /\ pc = "idle"
  /\ client' = "open"
  /\ UNCHANGED <<logObjectIDs, gvars, evars, hvars, kvars, svars>>

ConnectOK ==
  /\ pc = "idle"
  /\ \E n \in 1..MaxSources :
       logObjectIDs' = [i \in 1..n |-> i]
  /\ client' = "open"
  /\ UNCHANGED <<gvars, evars, hvars, kvars, svars>>

\* Disconnect, under c.mu: Close, then c.client = nil; a failing Close
\* leaves the handle in place.
Disconnect ==
  /\ pc = "idle"
  /\ client = "open"
  /\ \/ client' = "nil"
     \/ UNCHANGED client
  /\ UNCHANGED <<logObjectIDs, gvars, evars, hvars, kvars, svars>>

\* ------------------------------------------------------------ GetRecords
\* uint32(x) as the int32 reading of its bits (|x| < 2^31 here).
Uint32(x) == x

\* A range loop that declares continuationPoint outside its body: the
\* first Call to source i carries what the loop of the source before it
\* left there.
StartSourceKeepingToken(i, quota, calls, states, stale, twice) ==
  /\ pc' = "calling"
  /\ idx' = i
  /\ continuationPoint' = continuationPoint
  /\ nodeRecords' = 0
  /\ callCP' = continuationPoint
  /\ callMax' = Uint32(quota - 0)
  /\ depth' = 1
  /\ srvN' \in 0..MaxN
  /\ nCalls' = [calls EXCEPT ![i] = 1]
  /\ srcState' = [states EXCEPT ![i] = "Requesting"]
  /\ staleSeen' = stale
  /\ staleTwice' = twice

\* First iteration of the pagination loop of source i: empty continuation
\* point, and the Call of callGetRecordsMethod goes out.
StartSource(i, quota, calls, states, stale, twice) ==
  /\ pc' = "calling"
  /\ idx' = i
  /\ continuationPoint' = <<>>
  /\ nodeRecords' = 0
  /\ callCP' = <<>>
  /\ callMax' = Uint32(quota - 0)
  /\ depth' = 1
  /\ srvN' \in 0..MaxN
  /\ nCalls' = [calls EXCEPT ![i] = 1]
  /\ srcState' = [states EXCEPT ![i] = "Requesting"]
  /\ staleSeen' = stale
  /\ staleTwice' = twice

\* GetRecords up to the first Call: snapshot, the two early returns, the
\* quota.
GetRecordsStart ==
  /\ pc = "idle"
  /\ \E m \in 1..MaxRecordsArg :
     /\ maxRecords' = m
     /\ gClient' = client
     /\ gIDs' = logObjectIDs
     /\ allRecords' = <<>> /\ recPage' = <<>> /\ delivered' = <<>>
     /\ restarts' = NoCalls /\ lastAnswer' = "none" /\ lastIssued' = NothingIssued
     /\ cancelled' = FALSE
     /\ IF client = "nil" \/ Len(logObjectIDs) = 0
        THEN /\ pc' = "returned"
             /\ retErr' = IF client = "nil" THEN "client not connected"
                          ELSE "no LogObject nodes configured"
             /\ nCalls' = NoCalls /\ srcState' = AllIdle
             /\ staleSeen' = NoCalls /\ staleTwice' = NoneTwice
             /\ UNCHANGED <<recordsPerNode, idx, continuationPoint, nodeRecords,
                            callCP, callMax, depth, srvN, srvM, srvFlavour>>
        ELSE LET q == m \div Len(logObjectIDs)
                 quota == IF q < 1 THEN 1 ELSE q
             IN /\ recordsPerNode' = quota
                /\ retErr' = ""
                /\ srvM' \in 0..MaxM
                /\ srvFlavour' \in Flavours
                /\ StartSource(1, quota, NoCalls, AllIdle, NoCalls, NoneTwice)
  /\ UNCHANGED <<cvars, kvars, svars>>

\* A GetRecords that returns the failure of the last source as its error.
EndSourceSurfacing(state, stale, twice) ==
  LET states == [srcState EXCEPT ![idx] = state] IN
  IF idx < Len(gIDs)
  THEN /\ StartSource(idx + 1, recordsPerNode, nCalls, states, stale, twice)
       /\ UNCHANGED retErr
  ELSE /\ pc' = "returned"
       /\ retErr' = IF state = "Failed" THEN "source failed" ELSE "nil"
       /\ srcState' = states
       /\ staleSeen' = stale
       /\ staleTwice' = twice
       /\ UNCHANGED <<idx, continuationPoint, nodeRecords, callCP, callMax, depth,
                      srvN, nCalls>>

\* The pagination loop of source idx is left by break: the range loop goes
\* on to the next source, or GetRecords returns allRecords and a nil error.
EndSource(state, stale, twice) ==
  LET states == [srcState EXCEPT ![idx] = state] IN
  IF idx < Len(gIDs)
  THEN /\ StartSource(idx + 1, recordsPerNode, nCalls, states, stale, twice)
       /\ UNCHANGED retErr
  ELSE /\ pc' = "returned"
       /\ retErr' = "nil"
       /\ srcState' = states
       /\ staleSeen' = stale
       /\ staleTwice' = twice
       /\ UNCHANGED <<idx, continuationPoint, nodeRecords, callCP, callMax, depth,
                      srvN, nCalls>>

\* What no answer to a Call changes.
CallFrame == UNCHANGED <<cvars, gClient, gIDs, maxRecords, recordsPerNode,
                         srvM, srvFlavour, kvars, svars>>

\* A GetRecords that returns at the first failing source.
SourceFailsAborting(answer) ==
  /\ pc' = "returned"
  /\ retErr' = "nil"
  /\ srcState' = [srcState EXCEPT ![idx] = "Failed"]
  /\ lastAnswer' = answer
  /\ UNCHANGED <<idx, continuationPoint, nodeRecords, callCP, callMax, depth,
                 srvN, nCalls, staleSeen, staleTwice>>
  /\ UNCHANGED <<allRecords, recPage, delivered, cancelled, restarts, lastIssued>>
  /\ CallFrame

\* A GetRecords that drops what it has when a source fails.
SourceFailsDiscarding(answer) ==
  /\ EndSource("Failed", staleSeen, staleTwice)
  /\ allRecords' = <<>>
  /\ lastAnswer' = answer
  /\ UNCHANGED <<recPage, delivered, cancelled, restarts, lastIssued>>
  /\ CallFrame

\* An answer that callGetRecordsMethod turns into an error: GetRecords logs
\* it and breaks, keeping allRecords.
SourceFails(answer) ==
  /\ EndSource("Failed", staleSeen, staleTwice)
  /\ lastAnswer' = answer
  /\ UNCHANGED <<allRecords, recPage, delivered, cancelled, restarts, lastIssued>>
  /\ CallFrame

\* c.client.Call returns an error (transport failure, ctx cancelled or past
\* its deadline).
CallError ==
  /\ pc = "calling"
  /\ SourceFails("callError")

\* A callGetRecordsMethod that calls again after StatusBadInvalidArgument.
StatusInvalidArgumentRetrying ==
  /\ pc = "calling" /\ ~cancelled
  /\ nCalls[idx] + Len(gIDs) <= MaxCalls
  /\ nCalls' = [nCalls EXCEPT ![idx] = @ + 1]
  /\ lastAnswer' = "invalidArgument"
  /\ UNCHANGED <<pc, idx, continuationPoint, nodeRecords, allRecords, retErr,
                 callCP, callMax, depth, cancelled, srvN, srcState, staleSeen,
                 staleTwice, recPage, delivered, restarts, lastIssued>>
  /\ CallFrame

\* StatusBadInvalidArgument.
StatusInvalidArgument ==
  /\ pc = "calling" /\ ~cancelled
  /\ SourceFails("invalidArgument")

\* Any other bad status.
StatusOtherBad ==
  /\ pc = "calling" /\ ~cancelled
  /\ SourceFails("otherBad")

\* StatusOK with fewer than 2 output arguments.
ShortOutput ==
  /\ pc = "calling" /\ ~cancelled
  /\ SourceFails("shortOutput")

\* A callGetRecordsMethod that restarts on every stale answer.
StatusStaleRetrying ==
  /\ pc = "calling" /\ ~cancelled
  /\ nCalls[idx] + Len(gIDs) <= MaxCalls
  /\ callCP' = <<>>
  /\ depth' = 2
  /\ nCalls' = [nCalls EXCEPT ![idx] = @ + 1]
  /\ staleSeen' = [staleSeen EXCEPT ![idx] = @ + 1]
  /\ staleTwice' = [staleTwice EXCEPT ![idx] = @ \/ depth = 2]
  /\ restarts' = [restarts EXCEPT ![idx] = @ + 1]
  /\ lastAnswer' = "stale"
  /\ UNCHANGED <<pc, idx, continuationPoint, nodeRecords, allRecords,
                 retErr, callMax, cancelled, srvN, srcState,
                 recPage, delivered, lastIssued>>
  /\ CallFrame

\* StatusBadContinuationPointInvalid: with a continuation point in the
\* request callGetRecordsMethod calls itself with none; without one it
\* returns an error.
StatusStale ==
  /\ pc = "calling" /\ ~cancelled
  /\ LET stale == [staleSeen EXCEPT ![idx] = @ + 1]
         twice == [staleTwice EXCEPT ![idx] = @ \/ depth = 2]
     IN
     IF Len(callCP) > 0
     THEN /\ nCalls[idx] + Len(gIDs) <= MaxCalls
          /\ callCP' = <<>>
          /\ depth' = 2
          /\ nCalls' = [nCalls EXCEPT ![idx] = @ + 1]
          /\ staleSeen' = stale
          /\ restarts' = [restarts EXCEPT ![idx] = @ + 1]
          /\ UNCHANGED <<pc, idx, continuationPoint, nodeRecords, allRecords,
                         retErr, callMax, cancelled, srvN, srcState, staleTwice,
                         recPage, delivered>>
     ELSE /\ EndSource("Failed", stale, twice)
          /\ UNCHANGED <<allRecords, recPage, delivered, cancelled, restarts>>
  /\ lastAnswer' = "stale"
  /\ UNCHANGED lastIssued
  /\ CallFrame

\* A GetRecords that puts every page in front of the earlier ones.
PrependRecords(all, records) == records \o all

\* allRecords = append(allRecords, records...).
AppendRecords(all, records) == all \o records

\* A pagination loop that goes on as long as continuation points come back.
LoopEndsWithoutQuota(nextContinuationPoint, got, quota) ==
  Len(nextContinuationPoint) = 0

\* A pagination loop that is left only when the quota is used up.
LoopEndsAtQuotaOnly(nextContinuationPoint, got, quota) ==
  got >= quota

\* A pagination loop that goes on when the quota is met exactly.
LoopEndsPastQuota(nextContinuationPoint, got, quota) ==
  Len(nextContinuationPoint) = 0 \/ got > quota

\* The break of the pagination loop: no continuation point came back, or
\* the quota of the source is used up.
LoopEnds(nextContinuationPoint, got, quota) ==
  Len(nextContinuationPoint) = 0 \/ got >= quota

\* StatusOK with the record array and the continuation point of the
\* server. callGetRecordsMethod parses the array; GetRecords appends the
\* records and goes on while a continuation point came back and the quota
\* is not used up.
ResponseOK ==
  /\ pc = "calling" /\ ~cancelled
  /\ \E page \in {getFilteredRecords(idx, srvFlavour, srvN, srvM, callMax, callCP)} :
     \E records \in {parseExtensionObjectArray(page.objects).result} :
       LET nextContinuationPoint == page.cp
           got == nodeRecords + Len(records)
       IN
       /\ allRecords' = AppendRecords(allRecords, records)
       /\ recPage' = recPage \o [j \in 1..Len(records) |-> <<idx, nCalls[idx]>>]
       /\ delivered' = delivered \o records
       /\ lastAnswer' = "ok"
       /\ lastIssued' = <<idx, nextContinuationPoint>>
       /\ IF LoopEnds(nextContinuationPoint, got, recordsPerNode)
          THEN EndSource("Done", staleSeen, staleTwice)
          ELSE /\ nCalls[idx] + Len(gIDs) <= MaxCalls
               /\ nodeRecords' = got
               /\ continuationPoint' = nextContinuationPoint
               /\ callCP' = nextContinuationPoint
               /\ callMax' = Uint32(recordsPerNode - got)
               /\ depth' = 1
               /\ nCalls' = [nCalls EXCEPT ![idx] = @ + 1]
               /\ UNCHANGED <<pc, idx, retErr, srvN, srcState, staleSeen,
                              staleTwice>>
  /\ UNCHANGED <<cancelled, restarts>>
  /\ CallFrame

\* The context of the retrieval is cancelled or its deadline passes.
Cancel ==
  /\ pc = "calling" /\ ~cancelled
  /\ cancelled' = TRUE
  /\ UNCHANGED <<cvars, gvars, srvN, srvM, srvFlavour, hvars, kvars, svars>>

\* The caller takes the result; the locals of GetRecords are gone.
GetRecordsReturn ==
  /\ pc = "returned"
  /\ pc' = "idle" /\ gClient' = "nil" /\ gIDs' = <<>>
  /\ maxRecords' = 0 /\ recordsPerNode' = 0 /\ idx' = 0
  /\ continuationPoint' = <<>> /\ nodeRecords' = 0 /\ allRecords' = <<>>
  /\ retErr' = "" /\ callCP' = <<>> /\ callMax' = 0 /\ depth' = 1
  /\ cancelled' = FALSE /\ srvN' = 0 /\ srvM' = 0 /\ srvFlavour' = "clean"
  /\ nCalls' = NoCalls /\ srcState' = AllIdle /\ staleSeen' = NoCalls
  /\ staleTwice' = NoneTwice /\ recPage' = <<>> /\ delivered' = <<>>
  /\ restarts' = NoCalls /\ lastAnswer' = "none" /\ lastIssued' = NothingIssued
  /\ UNCHANGED <<cvars, kvars, svars>>

Next ==
  \/ ConnectFailsEarly
  \/ ConnectFailsLate
  \/ ConnectOK
  \/ Disconnect
  \/ GetRecordsStart
  \/ CallError
  \/ StatusInvalidArgument
  \/ StatusOtherBad
  \/ ShortOutput
  \/ StatusStale
  \/ ResponseOK
  \/ Cancel
  \/ GetRecordsReturn

Spec == Init /\ [][Next]_vars

\* ------------------------------------------------------------ codec runs
\* The LogRecordExtObj values a codec run starts from: every combination of
\* the fields below.
SampleTimes == {SampleTime, ZeroTime}

SampleEventNodes ==
  {NilNodeID, NewNumericNodeID(0, 2041), NewNumericNodeID(300, 70000)}

SampleSourceNodes ==
  {NilNodeID, NewNumericNodeID(1, 100), NewNumericNodeID(0, 255),
   NewStringNodeID(2, <<115>>), NewStringNodeID(0, <<115>>)}

\* "", "S", "e" with an acute accent (two bytes of UTF-8)
SampleNames == {<<>>, <<83>>, <<195, 169>>}

SampleMessages == {<<>>, <<109>>}

SampleTraceID == [i \in 1..16 |-> i]

\* SpanID 0x0102030405060708
SampleSpanID == <<8, 7, 6, 5, 4, 3, 2, 1>>

SampleTraces ==
  {[id |-> Zeros(16), span |-> Zeros(8)],
   [id |-> SampleTraceID, span |-> Zeros(8)],
   [id |-> SampleTraceID, span |-> SampleSpanID],
   [id |-> Zeros(16), span |-> SampleSpanID]}

KeyA == <<97>>

KeyB == <<98>>

SampleAttributes ==
  {NilMap,
   MakeMap(<<>>),
   MakeMap([k \in {KeyA} |-> Val("string", <<118>>)]),
   MakeMap([k \in {KeyA} |-> Val("bool", <<1>>)]),
   MakeMap([k \in {KeyA} |-> Val("uint16", <<7, 0>>)]),
   MakeMap([k \in {KeyA, KeyB} |->
              IF k = KeyA THEN Val("int64", <<1, 0, 0, 0, 0, 0, 0, 128>>)
              ELSE Val("string", <<>>)]),
   MakeMap([k \in {<<>>} |-> Val("string", <<118>>)])}

SampleRecords ==
  {[ZeroLogRecord EXCEPT !.Time = t, !.Severity = 300, !.EventTypeNode = e,
                         !.SourceNode = n, !.SourceName = s, !.Message = m,
                         !.TraceIDBytes = tr.id, !.SpanID = tr.span,
                         !.AdditionalData = a] :
     t \in SampleTimes, e \in SampleEventNodes, n \in SampleSourceNodes,
     s \in SampleNames, m \in SampleMessages, tr \in SampleTraces,
     a \in SampleAttributes}

\* The arrays a codec run starts from: up to MaxN entries, entry j holding
\* record j of source 1 as an object of any kind.
SampleArrays ==
  UNION {{[j \in 1..n |-> SampleObject[1, j, kinds[j]]] :
            kinds \in [1..n -> ObjectKinds]} : n \in 0..MaxN}

\* The byte strings that follow an encoding inside a larger payload.
SampleTails == {<<0>>, <<1, 2, 3>>, <<255, 255, 255, 255, 255>>}

\* The NodeIDs a function run starts from: nil, the null NodeID, and
\* identifiers at and around the limits of the four wire forms
\* (id -1 is 0xFFFFFFFF).
SampleNodeIDs ==
  {NilNodeID,
   NewNumericNodeID(0, 0), NewNumericNodeID(0, 1), NewNumericNodeID(0, 255),
   NewNumericNodeID(0, 256), NewNumericNodeID(0, 2041),
   NewNumericNodeID(1, 0), NewNumericNodeID(1, 1001),
   NewNumericNodeID(255, 65535), NewNumericNodeID(255, 65536),
   NewNumericNodeID(256, 1), NewNumericNodeID(2, 70000),
   NewNumericNodeID(65535, -1),
   NewStringNodeID(1, <<77, 121>>), NewStringNodeID(2, <<>>),
   NewStringNodeID(300, <<195, 169>>), NewStringNodeID(0, <<115>>)}

\* The attribute values a function run starts from: two of every type
\* readVariantValue can return, a Go int, nil, and a value of a type
\* without a case ("other", a []string for one).
SampleValues ==
  {NilValue,
   Val("bool", <<0>>), Val("bool", <<1>>),
   Val("int8", <<255>>), Val("int8", <<7>>),
   Val("uint8", <<0>>), Val("uint8", <<200>>),
   Val("int16", <<0, 128>>), Val("int16", <<7, 0>>),
   Val("uint16", <<7, 0>>), Val("uint16", <<255, 255>>),
   Val("int32", <<42, 0, 0, 0>>), Val("int32", <<255, 255, 255, 255>>),
   Val("uint32", <<0, 0, 0, 0>>), Val("uint32", <<0, 0, 0, 128>>),
   Val("int64", <<1, 0, 0, 0, 0, 0, 0, 128>>), Val("int64", Zeros(8)),
   Val("uint64", <<255, 255, 255, 255, 255, 255, 255, 255>>),
   Val("uint64", <<9, 0, 0, 0, 0, 0, 0, 0>>),
   Val("float32", <<0, 0, 192, 63>>), Val("float32", <<0, 0, 0, 0>>),
   Val("float64", <<31, 133, 235, 81, 184, 30, 9, 64>>), Val("float64", Zeros(8)),
   Val("string", <<118>>), Val("string", <<>>), Val("string", <<195, 169>>),
   Val("int", <<42, 0, 0, 0, 0, 0, 0, 0>>),
   Val("other", <<>>)}

\* The severities a function run starts from.
SampleSeverities == 0..MaxSeverity

\* The trace ids and span ids a function run starts from.
SampleTraceIDs ==
  {Zeros(16), SampleTraceID, [i \in 1..16 |-> 255], [i \in 1..16 |-> 160 + i]}

SampleSpanIDs ==
  {Zeros(8), SampleSpanID, <<1, 0, 0, 0, 0, 0, 0, 0>>, <<0, 0, 0, 0, 0, 0, 0, 128>>,
   [i \in 1..8 |-> 255]}

SampleIDs ==
  {[ZeroLogRecord EXCEPT !.TraceIDBytes = t, !.SpanID = sp] :
     t \in SampleTraceIDs, sp \in SampleSpanIDs}

\* EncodeLogRecord of the server: the body of a LogRecord with its Time,
\* its EventType NodeId and its AdditionalData array given as the bytes the
\* server's encoder writes for them, the other fields fixed.
WireRecord(ticks, eventType, additionalData) ==
  ticks \o U16Bytes(300) \o eventType
    \o writeNodeIDToBuffer(NewNumericNodeID(1, 100))
    \o WriteString(<<83>>)
    \o <<2>> \o WriteString(<<109>>)
    \o SampleTraceID \o SampleSpanID \o Zeros(8) \o WriteString(<<>>)
    \o additionalData

\* Tick counts: the sample time, 1, 0, -1 and the least int64.
SampleTicks ==
  {TimeToTicks(SampleTime), One64, Zeros(8), [i \in 1..8 |-> 255],
   <<0, 0, 0, 0, 0, 0, 0, 128>>}

\* A NodeId with a Guid identifier (encoding byte 4: namespace and 16
\* bytes) and one with an opaque identifier (encoding byte 5: namespace and
\* a ByteString), both of namespace 1.
GuidNodeID == <<4>> \o U16Bytes(1) \o [i \in 1..16 |-> 16 + i]

OpaqueNodeID == <<5>> \o U16Bytes(1) \o U32Bytes(2) \o <<7, 9>>

SampleEventTypes ==
  {<<0, 0>>, writeNodeIDToBuffer(NewNumericNodeID(0, 2041)), GuidNodeID, OpaqueNodeID}

\* An AdditionalData array of two pairs: name "a" with the Variant bytes
\* first, then name "b" with the string "v".
PairsWith(first) ==
  U32Bytes(2) \o WriteString(KeyA) \o first
    \o WriteString(KeyB) \o writeVariantValue(Val("string", <<118>>))

\* Variants the reader has no case for: Null (type 0, no payload), a
\* DateTime (type 13, 8 bytes) and a StatusCode (type 19, 4 bytes).
NullVariant == <<0>>

DateTimeVariant == <<13>> \o TimeToTicks(SampleTime)

StatusCodeVariant == <<19>> \o U32Bytes(0)

\* AdditionalData arrays: empty, the null array (count -1), the least
\* int32 as count, and two pairs whose first value is a bool or one of the
\* variants above.
SampleAdditionalData ==
  {U32Bytes(0), U32Bytes(-1), <<0, 0, 0, 128>>,
   PairsWith(writeVariantValue(Val("bool", <<1>>))),
   PairsWith(NullVariant), PairsWith(DateTimeVariant), PairsWith(StatusCodeVariant)}

SampleWires ==
  [ticks : SampleTicks, eventType : SampleEventTypes,
   additionalData : SampleAdditionalData]

\* The instants a function run starts from: the sample time, 100 ns and
\* 50 ns after it, the Unix epoch, 100 ns and 1 ns before it, and the
\* unset instant time.Time{}.
SampleInstants ==
  {SampleTime,
   UnixTime(Add64(SampleTime.nanos, <<100, 0, 0, 0, 0, 0, 0, 0>>)),
   UnixTime(Add64(SampleTime.nanos, <<50, 0, 0, 0, 0, 0, 0, 0>>)),
   UnixTime(Zeros(8)),
   UnixTime(Neg64(<<100, 0, 0, 0, 0, 0, 0, 0>>)),
   UnixTime(Neg64(One64)),
   ZeroTime}

InitCodec ==
  /\ InitRetriever
  /\ \/ kpc = "record" /\ lr \in SampleRecords /\ objects = <<>> /\ FnIdle
     \/ kpc = "array" /\ lr = ZeroLogRecord /\ objects \in SampleArrays /\ FnIdle
     \/ /\ \/ kpc = "node" /\ fnArg \in SampleNodeIDs
           \/ kpc = "value" /\ fnArg \in SampleValues
           \/ kpc = "severity" /\ fnArg \in SampleSeverities
           \/ kpc = "ids" /\ fnArg \in SampleIDs
           \/ kpc = "wire" /\ fnArg \in SampleWires
           \/ kpc = "time" /\ fnArg \in SampleInstants
           \/ kpc = "level" /\ fnArg \in SampleLevels
        /\ fnBytes = <<>> /\ fnRet = <<>>
        /\ lr = ZeroLogRecord /\ objects = <<>>
  /\ CodecIdle
  /\ ReceiverOff

\* original.Encode(): the range over AdditionalData takes any order.
EncodeRecord ==
  /\ kpc = "record"
  /\ \E order \in MapOrders(lr.AdditionalData.m) :
       wire' = Encode(lr, order)
  /\ kpc' = "encoded"
  /\ UNCHANGED <<rvars, svars, fvars, lr, decoded, object, parsed, objects, parsedArray>>

\* decoded := &LogRecordExtObj{}; decoded.Decode(encoded).
DecodeRecord ==
  /\ kpc = "encoded"
  /\ decoded' = Decode(ZeroLogRecord, wire)
  /\ kpc' = "decoded"
  /\ UNCHANGED <<rvars, svars, fvars, lr, wire, object, parsed, objects, parsedArray>>

\* The ExtensionObjects that can carry the record: the registered type
\* holding it, its encoding as raw bytes, that encoding cut short, an empty
\* body, and a Value that is neither.
ObjectsOf(l, b) ==
  {StructObj(l), RawObj(b), RawObj(<<>>), OtherObj("nilvalue"), OtherObj("other")}
    \cup {RawObj(SubSeq(b, 1, Len(b) - cut)) : cut \in 1..MaxCut}

\* c.parseLogRecordFromExtensionObject(obj).
ParseObject ==
  /\ kpc = "encoded"
  /\ \E o \in ObjectsOf(lr, wire) :
       /\ object' = o
       /\ parsed' = parseLogRecordFromExtensionObject(o)
  /\ kpc' = "parsed"
  /\ UNCHANGED <<rvars, svars, fvars, lr, wire, decoded, objects, parsedArray>>

\* c.parseExtensionObjectArray(objects).
ParseArray ==
  /\ kpc = "array"
  /\ parsedArray' = parseExtensionObjectArray(objects)
  /\ kpc' = "parsedArray"
  /\ UNCHANGED <<rvars, svars, fvars, lr, wire, decoded, object, parsed, objects>>

\* Decode of an encoding that is followed by more bytes.
DecodeEmbedded ==
  /\ kpc = "encoded"
  /\ \E tail \in SampleTails :
       /\ fnArg' = tail
       /\ fnRet' = Decode(ZeroLogRecord, wire \o tail)
  /\ kpc' = "embedded"
  /\ UNCHANGED <<rvars, svars, fnBytes, lr, wire, decoded, object, parsed, objects,
                 parsedArray>>

\* What no function run changes.
FnFrame == UNCHANGED <<rvars, svars, lr, wire, decoded, object, parsed, objects,
                       parsedArray>>

\* writeNodeIDToBuffer(buf, nodeID) on an empty buffer.
WriteNode ==
  /\ kpc = "node"
  /\ fnBytes' = writeNodeIDToBuffer(fnArg)
  /\ kpc' = "nodeWritten"
  /\ UNCHANGED <<fnArg, fnRet>>
  /\ FnFrame

\* readNodeIDFromBuffer(buf) on those bytes, alone or followed by more.
ReadNode ==
  /\ kpc = "nodeWritten"
  /\ \E tail \in SampleTails \cup {<<>>} :
       fnRet' = readNodeIDFromBuffer(NewBuffer(fnBytes \o tail))
  /\ kpc' = "nodeRead"
  /\ UNCHANGED <<fnArg, fnBytes>>
  /\ FnFrame

\* writeVariantValue(buf, value) on an empty buffer.
WriteValue ==
  /\ kpc = "value"
  /\ fnBytes' = writeVariantValue(fnArg)
  /\ kpc' = "valueWritten"
  /\ UNCHANGED <<fnArg, fnRet>>
  /\ FnFrame

\* readVariantValue(buf) on those bytes, alone or followed by more.
ReadValue ==
  /\ kpc = "valueWritten"
  /\ \E tail \in SampleTails \cup {<<>>} :
       fnRet' = readVariantValue(NewBuffer(fnBytes \o tail))
  /\ kpc' = "valueRead"
  /\ UNCHANGED <<fnArg, fnBytes>>
  /\ FnFrame

\* severityToText(severity) and t.mapSeverity(severity).
Classify ==
  /\ kpc = "severity"
  /\ fnRet' = [text |-> severityToText(fnArg), number |-> mapSeverity(fnArg)]
  /\ kpc' = "classified"
  /\ UNCHANGED <<fnArg, fnBytes>>
  /\ FnFrame

\* lr.TraceIDHex() and lr.SpanIDHex().
HexIDs ==
  /\ kpc = "ids"
  /\ fnRet' = [trace |-> TraceIDHex(fnArg), span |-> SpanIDHex(fnArg)]
  /\ kpc' = "hexed"
  /\ UNCHANGED <<fnArg, fnBytes>>
  /\ FnFrame

\* lr := &LogRecordExtObj{}; lr.Decode(body) of a body the server wrote.
DecodeWire ==
  /\ kpc = "wire"
  /\ \E body \in {WireRecord(fnArg.ticks, fnArg.eventType, fnArg.additionalData)} :
       /\ fnBytes' = body
       /\ fnRet' = Decode(ZeroLogRecord, body)
  /\ kpc' = "wireDecoded"
  /\ UNCHANGED fnArg
  /\ FnFrame

\* The first step of Encode on l.Time, then the first step of Decode on
\* those ticks with a fresh receiver.
ConvertTime ==
  /\ kpc = "time"
  /\ \E ticks \in {TimeToTicks(fnArg)} :
       /\ fnBytes' = ticks
       /\ fnRet' = TicksToTime(ticks, ZeroTime)
  /\ kpc' = "timeConverted"
  /\ UNCHANGED fnArg
  /\ FnFrame

\* c.getMinSeverityValue() with Filter.MinSeverity = fnArg.
MinSeverity ==
  /\ kpc = "level"
  /\ fnRet' = getMinSeverityValue(fnArg)
  /\ kpc' = "levelled"
  /\ UNCHANGED <<fnArg, fnBytes>>
  /\ FnFrame

NextCodec ==
  \/ EncodeRecord
  \/ DecodeRecord
  \/ ParseObject
  \/ ParseArray
  \/ DecodeEmbedded
  \/ WriteNode
  \/ ReadNode
  \/ WriteValue
  \/ ReadValue
  \/ Classify
  \/ HexIDs
  \/ DecodeWire
  \/ ConvertTime
  \/ MinSeverity

SpecCodec == InitCodec /\ [][NextCodec]_vars

\* ------------------------------------------------------------ retrieval
\* Record id of source src, told by its content.
IsRecordOf(r, src, id) ==
  /\ r.Severity = id /\ r.SourceName = <<64 + src>>
  /\ r.Message = <<109>> /\ r.Timestamp = SampleTime

\* recs is records 1..k of source src, each once, in the server's order.
IsFirstRecords(recs, src, k) ==
  /\ Len(recs) = k
  /\ \A j \in 1..k : IsRecordOf(recs[j], src, j)

SrcOf(r) == r.SourceName[1] - 64

CeilDiv(a, b) == (a + b - 1) \div b

Max(a, b) == IF a > b THEN a ELSE b

\* The elements of allRecords that came from source i, in order.
RECURSIVE RecordsOfSourceFrom(_, _)
RecordsOfSourceFrom(i, j) ==
  IF j > Len(allRecords) THEN <<>>
  ELSE IF recPage[j][1] = i
       THEN <<allRecords[j]>> \o RecordsOfSourceFrom(i, j + 1)
       ELSE RecordsOfSourceFrom(i, j + 1)

\* A finished retrieval of one source from a server with a page cap of
\* srvM >= 1 whose records all decode, with no failure and no stale answer.
CleanSingleSource ==
  /\ pc = "returned" /\ retErr = "nil"
  /\ Len(gIDs) = 1 /\ srvM >= 1 /\ srvFlavour = "clean"
  /\ srcState[1] = "Done" /\ staleSeen[1] = 0

\* C1 as stated: one source holding N records, a server returning at most M
\* records per call: exactly ceil(N/M) calls go to the source and exactly
\* the N records come back, in order, none twice.
PaginationAsStated ==
  CleanSingleSource =>
    /\ nCalls[1] = CeilDiv(srvN, srvM)
    /\ IsFirstRecords(allRecords, 1, srvN)

\* C1: one source holding N records, a server returning at most M >= 1
\* records per call, a quota Q = max(1, maxRecords / sources): with
\* K = min(N, Q), exactly max(1, ceil(K/M)) calls go to the source and
\* exactly the first K records come back, in order, none twice.
PaginationWithinQuota ==
  CleanSingleSource =>
    /\ nCalls[1] = Max(1, CeilDiv(Min(srvN, recordsPerNode), srvM))
    /\ IsFirstRecords(allRecords, 1, Min(srvN, recordsPerNode))

\* Three records fetched in two pages of at most two.
PaginationTwoPages ==
  /\ CleanSingleSource
  /\ srvN = 3 /\ srvM = 2 /\ recordsPerNode >= 3
  /\ nCalls[1] = 2 /\ Len(allRecords) = 3

\* C2: after a stale answer to a call with a continuation point and a
\* restart that then runs cleanly, the records returned for the source are
\* every record of the window, each exactly once.
StaleRecoveryExactlyOnce ==
  (/\ pc = "returned" /\ retErr = "nil"
   /\ srvFlavour = "clean" /\ srvN <= recordsPerNode
   /\ srcState[idx] = "Done" /\ staleSeen[idx] = 1)
  => IsFirstRecords(RecordsOfSourceFrom(idx, 1), idx, srvN)

\* Two records, pages of one: the call for page two is answered stale, the
\* restart delivers page one again and the quota of two is used up.
StaleRecoveryDuplicates ==
  /\ pc = "returned" /\ retErr = "nil" /\ Len(gIDs) = 1
  /\ srvFlavour = "clean" /\ srvN = 2 /\ srvM = 1 /\ recordsPerNode = 2
  /\ srcState[1] = "Done" /\ staleSeen[1] = 1 /\ nCalls[1] = 3
  /\ Len(allRecords) = 2
  /\ IsRecordOf(allRecords[1], 1, 1) /\ IsRecordOf(allRecords[2], 1, 1)

\* C3: a retrieval that got past its early returns calls every configured
\* source at least once, however the calls of the other sources ended, and
\* returns every record of every page a successful call delivered.
FailureIsolation ==
  (pc = "returned" /\ retErr = "nil") =>
    /\ \A i \in 1..Len(gIDs) : nCalls[i] >= 1 /\ srcState[i] \in {"Done", "Failed"}
    /\ allRecords = delivered

\* Source 1 fails after its first page, source 2 is still fetched.
FailureIsolationWitness ==
  /\ pc = "returned" /\ retErr = "nil" /\ Len(gIDs) = 2
  /\ srcState[1] = "Failed" /\ nCalls[1] = 2
  /\ srcState[2] = "Done"
  /\ Len(allRecords) >= 2
  /\ SrcOf(allRecords[1]) = 1 /\ SrcOf(allRecords[Len(allRecords)]) = 2

\* C4: GetRecords returns an error only when the client is not connected or
\* no source is configured; connected and with a source it returns a nil
\* error whatever failed at a record or a source.
ErrorOnlyWhenUnconfigured ==
  pc = "returned" =>
    /\ (gClient = "open" /\ Len(gIDs) >= 1) => retErr = "nil"
    /\ gClient = "nil" => retErr = "client not connected"
    /\ (gClient = "open" /\ Len(gIDs) = 0) => retErr = "no LogObject nodes configured"

\* Every source failed, some records did not decode, and the error is nil.
NilErrorAfterFailures ==
  /\ pc = "returned" /\ retErr = "nil" /\ Len(gIDs) = 2
  /\ srvFlavour = "mixed"
  /\ \A i \in 1..2 : srcState[i] = "Failed"

\* C6: a source whose restarted, token-less call is answered stale as well
\* is Failed and gets no further call in this retrieval; the other sources
\* are still called and the records of their pages are returned.
SecondStaleFailsSource ==
  /\ [](\A i \in Sources : staleTwice[i] =>
          /\ srcState[i] = "Failed"
          /\ pc = "returned" =>
               /\ \A j \in 1..Len(gIDs) : nCalls[j] >= 1
               /\ allRecords = delivered)
  /\ [][\A i \in Sources : staleTwice[i] => nCalls'[i] = nCalls[i]
                                            \/ pc' = "idle"]_vars

\* Source 1 was answered stale twice in a row; source 2 delivered.
SecondStaleWitness ==
  /\ pc = "returned" /\ Len(gIDs) = 2
  /\ staleTwice[1] /\ staleSeen[1] = 2 /\ srcState[1] = "Failed"
  /\ srcState[2] = "Done"
  /\ Len(allRecords) >= 2
  /\ SrcOf(allRecords[Len(allRecords)]) = 2

\* C7: a call aborted because the context is cancelled or past its deadline
\* marks the current source Failed, and every record accumulated from
\* earlier pages and earlier sources stays in what GetRecords returns.
CancellationKeepsRecords ==
  /\ [][(pc = "calling" /\ cancelled) =>
          /\ srcState'[idx] = "Failed"
          /\ allRecords' = allRecords]_vars
  /\ []((pc = "returned" /\ cancelled) =>
          /\ retErr = "nil"
          /\ allRecords = delivered)

\* Cancelled while source 2 was past its first page: the pages of source 1
\* and that page of source 2 are returned.
CancellationWitness ==
  /\ pc = "returned" /\ cancelled /\ Len(gIDs) = 2
  /\ srcState[1] = "Done" /\ srcState[2] = "Failed" /\ nCalls[2] = 2
  /\ Len(allRecords) >= 2
  /\ SrcOf(allRecords[1]) = 1 /\ SrcOf(allRecords[Len(allRecords)]) = 2

\* C8: in the list returned, the records of the source at an earlier
\* position precede those of every later one; within a source the records
\* of an earlier page precede those of every later page; and a page keeps
\* the order in which the server returned it.
AggregateOrdering ==
  pc = "returned" =>
    /\ Len(recPage) = Len(allRecords)
    /\ \A j \in 1..Len(allRecords) : SrcOf(allRecords[j]) = recPage[j][1]
    /\ \A j, k \in 1..Len(allRecords) :
         j < k =>
           \/ recPage[j][1] < recPage[k][1]
           \/ /\ recPage[j][1] = recPage[k][1]
              /\ recPage[j][2] < recPage[k][2]
           \/ /\ recPage[j] = recPage[k]
              /\ allRecords[j].Severity < allRecords[k].Severity

\* A page of two records and a page of one from source 1, then a page
\* from source 2.
AggregateOrderingWitness ==
  /\ pc = "returned" /\ Len(gIDs) = 2
  /\ Len(allRecords) >= 4
  /\ recPage[1] = <<1, 1>> /\ recPage[2] = <<1, 1>>
  /\ recPage[3] = <<1, 2>>
  /\ recPage[4] = <<2, 1>>

\* ------------------------------------------------------------ codec
\* A nil *ua.NodeID and the null NodeID it is encoded as count as the same
\* node, a nil map and an empty map as the same attributes.
SameNode(a, b) == a = b \/ (a.mask = "nil" /\ b = NewNumericNodeID(0, 0))

SameAttributes(a, b) ==
  /\ DOMAIN a.m = DOMAIN b.m
  /\ \A k \in DOMAIN a.m : a.m[k] = b.m[k]

\* C5: Decode(Encode(r)) succeeds, consumes every byte and reproduces r
\* field for field, for every LogRecord r that can be constructed.
RoundTrip ==
  kpc = "decoded" =>
    /\ ~decoded.err
    /\ decoded.n = Len(wire)
    /\ decoded.l.Time = lr.Time
    /\ decoded.l.Severity = lr.Severity
    /\ SameNode(lr.EventTypeNode, decoded.l.EventTypeNode)
    /\ SameNode(lr.SourceNode, decoded.l.SourceNode)
    /\ decoded.l.SourceName = lr.SourceName
    /\ decoded.l.Message = lr.Message
    /\ decoded.l.TraceIDBytes = lr.TraceIDBytes
    /\ decoded.l.SpanID = lr.SpanID
    /\ decoded.l.ParentSpanID = lr.ParentSpanID
    /\ decoded.l.ParentIdentifier = lr.ParentIdentifier
    /\ SameAttributes(lr.AdditionalData, decoded.l.AdditionalData)

\* A record with every field in order and the one attribute a = uint16(7).
RecordWithUint16 ==
  [ZeroLogRecord EXCEPT !.Time = SampleTime, !.Severity = 300,
                        !.EventTypeNode = NewNumericNodeID(0, 2041),
                        !.SourceNode = NewNumericNodeID(1, 100),
                        !.SourceName = <<83>>, !.Message = <<109>>,
                        !.AdditionalData =
                           MakeMap([k \in {KeyA} |-> Val("uint16", <<7, 0>>)])]

\* That record comes back from Decode(Encode(r)) with attribute a nil and
\* everything else as it was.
RoundTripLosesUint16 ==
  /\ kpc = "decoded" /\ lr = RecordWithUint16
  /\ ~decoded.err /\ decoded.n = Len(wire)
  /\ decoded.l.AdditionalData.m[KeyA] = NilValue
  /\ [decoded.l EXCEPT !.AdditionalData = lr.AdditionalData] = lr

\* The positions of objects, from j on, that hold a decodable encoding of
\* the record of that position: the registered type or its full raw body.
RECURSIVE DecodableFrom(_)
DecodableFrom(j) ==
  IF j > Len(objects) THEN <<>>
  ELSE IF objects[j] \in {SampleObject[1, j, "struct"], SampleObject[1, j, "raw"]}
       THEN <<j>> \o DecodableFrom(j + 1)
       ELSE DecodableFrom(j + 1)

\* C9: when entries of a record array fail to decode, the page still
\* succeeds and yields exactly the entries that did decode, in order; the
\* failing entries are skipped.
BatchKeepsDecodable ==
  kpc = "parsedArray" =>
    /\ ~parsedArray.err
    /\ Len(parsedArray.result) = Len(DecodableFrom(1))
    /\ \A k \in 1..Len(parsedArray.result) :
         IsRecordOf(parsedArray.result[k], 1, DecodableFrom(1)[k])

\* Three entries, the middle one cut short: records 1 and 3 come out.
BatchSkipsMiddle ==
  /\ kpc = "parsedArray" /\ Len(objects) = 3
  /\ objects[1] = SampleObject[1, 1, "raw"]
  /\ objects[2] = SampleObject[1, 2, "truncated"]
  /\ objects[3] = SampleObject[1, 3, "struct"]
  /\ ~parsedArray.err /\ Len(parsedArray.result) = 2
  /\ IsRecordOf(parsedArray.result[2], 1, 3)

\* C10: an ExtensionObject whose value is the raw bytes Encode(r) goes
\* through the manual codec and gives the canonical record that the
\* structured value r gives.
RawFallbackEquivalent ==
  (kpc = "parsed" /\ object = RawObj(wire)) =>
    /\ ~parsed.err
    /\ parsed.rec = logRecordExtObjToRecord(lr)

\* The raw body of the record with a = uint16(7) is decoded, and gives
\* attribute a nil where the structured value gives uint16(7).
RawFallbackLosesUint16 ==
  /\ kpc = "parsed" /\ object = RawObj(wire) /\ lr = RecordWithUint16
  /\ ~parsed.err
  /\ parsed.rec.Attributes.m[KeyA] = NilValue
  /\ logRecordExtObjToRecord(lr).Attributes.m[KeyA] = Val("uint16", <<7, 0>>)
  /\ [parsed.rec EXCEPT !.Attributes = MakeMap(lr.AdditionalData.m)]
       = logRecordExtObjToRecord(lr)

\* ------------------------------------------------------------ functions
\* The identifier a NodeID stands for: nil and the numeric id 0 of
\* namespace 0 are both the null sentinel.
IsNullNodeID(n) == n.mask = "nil" \/ (n.mask = "Numeric" /\ n.ns = 0 /\ n.nid = 0)

SameIdentifier(a, b) ==
  IF IsNullNodeID(a) THEN b = NewNumericNodeID(0, 0)
  ELSE b.mask = a.mask /\ b.ns = a.ns /\ b.nid = a.nid /\ b.sid = a.sid

\* C11: for every identifier of the four wire forms and for the null
\* sentinel, reading what writeNodeIDToBuffer wrote gives the original
\* namespace and value (or null) and consumes exactly the bytes written.
NodeIDRoundTrip ==
  kpc = "nodeRead" =>
    /\ ~fnRet.buf.err
    /\ fnRet.buf.pos = Len(fnBytes)
    /\ SameIdentifier(fnArg, fnRet.v)

\* The string identifier "s" of namespace 0 is written as the two bytes of
\* the null NodeID and read back as the null NodeID.
NodeIDStringInNamespace0Lost ==
  /\ kpc = "nodeRead"
  /\ fnArg = NewStringNodeID(0, <<115>>)
  /\ fnBytes = <<0, 0>>
  /\ fnRet.v = NewNumericNodeID(0, 0)

\* The tier a severity falls in, from the table of Part 26: a row is
\* <<low, high, text, severity number>>.
TierTable ==
  << <<1, 50, "Debug", "SeverityNumberDebug">>,
     <<51, 100, "Information", "SeverityNumberInfo">>,
     <<101, 150, "Notice", "SeverityNumberInfo4">>,
     <<151, 200, "Warning", "SeverityNumberWarn">>,
     <<201, 250, "Error", "SeverityNumberError">>,
     <<251, 300, "Critical", "SeverityNumberError2">>,
     <<301, 400, "Alert", "SeverityNumberError3">>,
     <<401, 1000, "Emergency", "SeverityNumberFatal">> >>

TiersOf(sev) == {i \in DOMAIN TierTable : TierTable[i][1] <= sev /\ sev <= TierTable[i][2]}

\* C12: severityToText and mapSeverity are defined for every severity from
\* 0 to 1001 and beyond, return the row of the tier table the severity
\* falls in, return Unspecified for 0 and for everything above 1000, and
\* change tier at the same values.
SeverityTotality ==
  kpc = "classified" =>
    IF TiersOf(fnArg) = {}
    THEN /\ fnArg = 0 \/ fnArg > 1000
         /\ fnRet.text = "Unspecified"
         /\ fnRet.number = "SeverityNumberUnspecified"
    ELSE \A i \in TiersOf(fnArg) :
           /\ fnRet.text = TierTable[i][3]
           /\ fnRet.number = TierTable[i][4]

\* Severity 151, the first of Warning, was classified.
SeverityBoundaryWitness ==
  /\ kpc = "classified" /\ fnArg = 151
  /\ fnRet.text = "Warning" /\ fnRet.number = "SeverityNumberWarn"

LowerHexDigits == (48..57) \cup (97..102)

\* C13: with span id zero TraceIDHex and SpanIDHex both return the empty
\* text whatever the trace-id bytes are; with a span id other than zero they
\* return 32 and 16 lowercase hex characters, the bytes of the trace id in
\* order and the span id most significant byte first.
TraceAbsenceSentinel ==
  kpc = "hexed" =>
    IF fnArg.SpanID = Zeros(8)
    THEN fnRet.trace = <<>> /\ fnRet.span = <<>>
    ELSE /\ Len(fnRet.trace) = 32 /\ Len(fnRet.span) = 16
         /\ \A i \in 1..32 : fnRet.trace[i] \in LowerHexDigits
         /\ \A i \in 1..16 : fnRet.span[i] \in LowerHexDigits
         /\ \A i \in 1..16 :
              /\ fnRet.trace[2 * i - 1] = HexDigit(fnArg.TraceIDBytes[i] \div 16)
              /\ fnRet.trace[2 * i] = HexDigit(fnArg.TraceIDBytes[i] % 16)
         /\ \A i \in 1..8 :
              /\ fnRet.span[2 * i - 1] = HexDigit(fnArg.SpanID[9 - i] \div 16)
              /\ fnRet.span[2 * i] = HexDigit(fnArg.SpanID[9 - i] % 16)

\* Trace-id bytes set, span id zero: both texts are empty.
TraceAbsentWitness ==
  /\ kpc = "hexed"
  /\ fnArg.TraceIDBytes = SampleTraceID /\ fnArg.SpanID = Zeros(8)
  /\ fnRet.trace = <<>> /\ fnRet.span = <<>>

\* The types of the attribute union and the tag of each on the wire.
UnionTags ==
  [bool |-> 1, int8 |-> 2, uint8 |-> 3, int16 |-> 4, uint16 |-> 5, int32 |-> 6,
   uint32 |-> 7, int64 |-> 8, uint64 |-> 9, float32 |-> 10, float64 |-> 11,
   string |-> 12]

\* C16: every value of a type of the union is written with the tag of its
\* type and read back with the same type and value, and no value other
\* than nil, of whatever type, comes back as nil without an error.
ClosedTaggedUnion ==
  kpc = "valueRead" =>
    /\ fnArg.t \in DOMAIN UnionTags =>
         /\ fnBytes[1] = UnionTags[fnArg.t]
         /\ ~fnRet.buf.err
         /\ fnRet.buf.pos = Len(fnBytes)
         /\ fnRet.v = fnArg
    /\ fnArg # NilValue => (fnRet.v # NilValue \/ fnRet.buf.err)

\* uint16(7) is written as the single null type byte and read back as nil,
\* with no error.
Uint16WrittenAsNull ==
  /\ kpc = "valueRead"
  /\ fnArg = Val("uint16", <<7, 0>>)
  /\ fnBytes = <<0>>
  /\ fnRet.v = NilValue /\ ~fnRet.buf.err

\* C17: for every record r and every byte string t, Decode(Encode(r) ++ t)
\* succeeds, returns n = len(Encode(r)) and yields the fields that
\* Decode(Encode(r)) yields.
DecodeConsumesExactly ==
  kpc = "embedded" =>
    /\ ~fnRet.err
    /\ fnRet.n = Len(wire)
    /\ fnRet.l = Decode(ZeroLogRecord, wire).l

\* A record with two attributes, followed by five bytes 0xFF.
DecodeEmbeddedWitness ==
  /\ kpc = "embedded"
  /\ fnArg = <<255, 255, 255, 255, 255>>
  /\ DOMAIN lr.AdditionalData.m = {KeyA, KeyB}
  /\ lr.SourceNode = NewStringNodeID(2, <<115>>)
  /\ ~fnRet.err /\ fnRet.n = Len(wire)
  /\ fnRet.l.AdditionalData.m[KeyB] = Val("string", <<>>)

\* ------------------------------------------------------------ C14
\* C14: a Call answered StatusBadInvalidArgument marks its source Failed at
\* once: that answer issues no further Call to the source and leaves
\* allRecords as it was, and a Failed source gets no Call for the rest of
\* the retrieval.
InvalidArgumentFailsSource ==
  /\ [][(pc = "calling" /\ cancelled' = cancelled
           /\ lastAnswer' = "invalidArgument")
          => /\ srcState'[idx] = "Failed"
             /\ nCalls'[idx] = nCalls[idx]
             /\ allRecords' = allRecords]_vars
  /\ [][\A i \in Sources :
          (srcState[i] = "Failed" /\ pc # "returned")
            => (nCalls'[i] = nCalls[i] /\ srcState'[i] = "Failed")]_vars

\* The second Call to the only source, the one with a continuation point,
\* was answered invalid argument; the record of the first page is kept.
InvalidArgumentWitness ==
  /\ pc = "returned" /\ retErr = "nil"
  /\ Len(gIDs) = 1
  /\ lastAnswer = "invalidArgument"
  /\ srcState[1] = "Failed"
  /\ nCalls[1] = 2
  /\ Len(allRecords) >= 1

\* ------------------------------------------------------------ C15
\* C15: within one retrieval the query of a source is restarted because of
\* a stale continuation point at most once, and a stale answer to a Call
\* that carried no continuation point is never followed by another Call.
StaleRetryAtMostOnce ==
  /\ [](\A i \in Sources : restarts[i] <= 1)
  /\ [][(pc = "calling" /\ cancelled' = cancelled
           /\ lastAnswer' = "stale" /\ Len(callCP) = 0)
          => /\ srcState'[idx] = "Failed"
             /\ nCalls'[idx] = nCalls[idx]]_vars

\* The only source was restarted twice and still ended Done: the first
\* restart brought a new continuation point, and the Call carrying that
\* one was answered stale as well.
StaleRestartedTwice ==
  /\ pc = "returned" /\ retErr = "nil"
  /\ Len(gIDs) = 1
  /\ srcState[1] = "Done"
  /\ restarts[1] = 2
  /\ staleSeen[1] = 2
  /\ nCalls[1] = 5

\* ------------------------------------------------------------ C18
\* The source the retriever turns to when it is done with source i.
MovesOnFrom(i) ==
  IF i < Len(gIDs)
  THEN pc' = "calling" /\ idx' = i + 1 /\ nCalls'[i + 1] = 1
  ELSE pc' = "returned"

\* C18: after a Call answered StatusOK the same source is called again if
\* and only if the answer carried a non-empty continuation point and the
\* quota of the source, less the records it has delivered, is positive;
\* otherwise the source is Done and the retriever goes on to the next
\* source, or returns after the last one.
LoopsIffTokenAndQuota ==
  [][(pc = "calling" /\ cancelled' = cancelled /\ lastAnswer' = "ok")
       => IF /\ Len(lastIssued'[2]) > 0
             /\ recordsPerNode - nodeRecords
                  - (Len(allRecords') - Len(allRecords)) > 0
          THEN /\ pc' = "calling" /\ idx' = idx
               /\ srcState'[idx] = "Requesting"
               /\ nCalls'[idx] = nCalls[idx] + 1
          ELSE /\ srcState'[idx] = "Done"
               /\ nCalls'[idx] = nCalls[idx]
               /\ MovesOnFrom(idx)]_vars

\* Source 1 was called a second time after a page with a continuation
\* point, and was Done after the second page used up its quota although
\* that page came with a continuation point too; source 2 is being called.
LoopsIffWitness ==
  /\ pc = "calling" /\ idx = 2
  /\ lastAnswer = "ok"
  /\ lastIssued[1] = 1 /\ Len(lastIssued[2]) > 0
  /\ srcState[1] = "Done"
  /\ nCalls[1] = 2 /\ staleSeen[1] = 0
  /\ Len(allRecords) = recordsPerNode

\* ------------------------------------------------------------ C19
\* Records of allRecords that came from source i.
RecordsFrom(i) == Cardinality({j \in 1..Len(recPage) : recPage[j][1] = i})

\* C19: the first Call to a source carries no continuation point and the
\* whole quota max(1, maxRecords div number of sources); every Call carries
\* as MaxReturnRecords the quota less the records the source has delivered
\* so far, and that number is at least 1, whatever the number of records
\* the server put into its pages.
QuotaRequests ==
  pc = "calling" =>
    /\ recordsPerNode = Max(1, maxRecords \div Len(gIDs))
    /\ callMax = recordsPerNode - RecordsFrom(idx)
    /\ callMax >= 1
    /\ nCalls[idx] = 1 => (callCP = <<>> /\ callMax = recordsPerNode)

\* A server that ignores MaxReturnRecords: source 1 was asked for 1 record
\* in its last Call and sent 2, which took it past its quota of 3; source 2
\* is being called with the whole quota.
QuotaRequestsWitness ==
  /\ pc = "calling" /\ idx = 2
  /\ srvFlavour = "greedy"
  /\ recordsPerNode = 3
  /\ RecordsFrom(1) = 4
  /\ nCalls[1] = 3
  /\ nCalls[2] = 1 /\ callMax = 3

\* ------------------------------------------------------------ C20
\* C20 as stated: every Call to a source after its first carries the
\* continuation point that the last successful Call to that source
\* returned.
TokenRoundTripAsStated ==
  (pc = "calling" /\ nCalls[idx] > 1) => lastIssued = <<idx, callCP>>

\* C20: a Call that carries a continuation point carries the one the
\* Call before it, made to the same source in the same retrieval and
\* answered StatusOK, returned; a Call without one is the first Call to its
\* source or the restart after a stale answer to a Call that carried one.
TokenRoundTrip ==
  pc = "calling" =>
    /\ nCalls[idx] = 1 => callCP = <<>>
    /\ Len(callCP) > 0 =>
         /\ lastAnswer = "ok"
         /\ lastIssued = <<idx, callCP>>
    /\ (Len(callCP) = 0 /\ nCalls[idx] > 1) =>
         /\ lastAnswer = "stale"
         /\ lastIssued[1] = idx /\ Len(lastIssued[2]) > 0

\* The fourth Call to source 1 is out: the second was answered stale, the
\* third restarted the query and returned the continuation point that the
\* fourth carries.
TokenRoundTripWitness ==
  /\ pc = "calling" /\ idx = 1
  /\ nCalls[1] = 4 /\ restarts[1] = 1
  /\ Len(callCP) > 0
  /\ lastIssued = <<1, callCP>>

\* ------------------------------------------------------------ C22
\* The trace context of record rec is there (32 hex digits of trace id, 16
\* of span id, sampled), or it is not there at all.
HasTraceContext(rec) ==
  Len(rec.TraceID) = 32 /\ Len(rec.SpanID) = 16 /\ rec.TraceFlags = 1

HasNoTraceContext(rec) ==
  rec.TraceID = <<>> /\ rec.SpanID = <<>> /\ rec.TraceFlags = 0

\* C22: the record parsed from a LogRecord, handed over decoded or as its
\* wire bytes, has TraceID, SpanID and the sampled flag if and only if the
\* span id of the LogRecord is not zero, whatever its trace id bytes are.
TracePresenceBySpanID ==
  (kpc = "parsed" /\ ~parsed.err) =>
    IF IsZero64(lr.SpanID) THEN HasNoTraceContext(parsed.rec)
    ELSE /\ HasTraceContext(parsed.rec)
         /\ parsed.rec.TraceID = HexEncode(lr.TraceIDBytes)

\* A LogRecord with a trace id and span id 0, parsed from its wire bytes:
\* the record has no trace context.
TraceIDWithoutSpanWitness ==
  /\ kpc = "parsed" /\ ~parsed.err
  /\ object.kind = "bytes"
  /\ lr.TraceIDBytes = SampleTraceID /\ IsZero64(lr.SpanID)
  /\ HasNoTraceContext(parsed.rec)

\* ------------------------------------------------------------ C23
\* The encoding byte of the smallest wire form that holds identifier n.
SmallestForm(n) ==
  IF IsNullNodeID(n) THEN 0
  ELSE IF n.mask = "String" THEN 3
  ELSE IF n.ns = 0 /\ n.nid >= 0 /\ n.nid <= 255 THEN 0
  ELSE IF n.ns <= 255 /\ n.nid >= 0 /\ n.nid <= 65535 THEN 1
  ELSE 2

\* C23: writeNodeIDToBuffer writes the smallest form that fits (two-byte,
\* four-byte, numeric, string), writes a nil or null identifier as the
\* bytes 00 00, and writes no other identifier as those bytes.
NodeIDSmallestFit ==
  kpc = "nodeWritten" =>
    /\ fnBytes[1] = SmallestForm(fnArg)
    /\ IsNullNodeID(fnArg) <=> fnBytes = <<0, 0>>

\* The string identifier "s" of namespace 0 was written as 00 00.
NodeIDStringWrittenAsNull ==
  /\ kpc = "nodeWritten"
  /\ fnArg = NewStringNodeID(0, <<115>>)
  /\ fnBytes = <<0, 0>>

\* ------------------------------------------------------------ C24
\* NodeId encodings the reader has a case for.
KnownEventTypes == SampleEventTypes \ {GuidNodeID, OpaqueNodeID}

\* The pair arrays whose first value has a type the reader has no case for.
UnknownFirstValues ==
  {PairsWith(NullVariant), PairsWith(DateTimeVariant), PairsWith(StatusCodeVariant)}

\* C24: a value whose type byte the reader does not know decodes to the nil
\* value, Decode does not fail, and the pair after it is decoded as it was
\* written.
UnknownTagYieldsNoValue ==
  (kpc = "wireDecoded" /\ fnArg.eventType \in KnownEventTypes
     /\ fnArg.additionalData \in UnknownFirstValues) =>
    /\ ~fnRet.err
    /\ DOMAIN fnRet.l.AdditionalData.m = {KeyA, KeyB}
    /\ fnRet.l.AdditionalData.m[KeyA] = NilValue
    /\ fnRet.l.AdditionalData.m[KeyB] = Val("string", <<118>>)

\* The first value was a DateTime: Decode took its 8 bytes for the next
\* name and failed.
DateTimeAttributeFailsDecode ==
  /\ kpc = "wireDecoded" /\ fnArg.eventType \in KnownEventTypes
  /\ fnArg.additionalData = PairsWith(DateTimeVariant)
  /\ fnRet.err

\* ------------------------------------------------------------ C25
\* The fields WireRecord puts after the EventType, as Decode returned them.
FieldsAfterEventType(l) ==
  /\ l.SourceNode = NewNumericNodeID(1, 100)
  /\ l.SourceName = <<83>>
  /\ l.Message = <<109>>
  /\ l.TraceIDBytes = SampleTraceID
  /\ l.SpanID = SampleSpanID

\* C25: an EventType NodeId with a Guid or an opaque identifier is accepted,
\* decodes to the null NodeId, and the fields that follow it in the record
\* are decoded as they were written.
ReservedNodeIDsDecodeToNull ==
  (kpc = "wireDecoded" /\ fnArg.eventType \in {GuidNodeID, OpaqueNodeID}
     /\ fnArg.additionalData = U32Bytes(0)) =>
    /\ ~fnRet.err
    /\ fnRet.l.EventTypeNode = NewNumericNodeID(0, 0)
    /\ FieldsAfterEventType(fnRet.l)

\* The EventType was a Guid NodeId: it decoded to the null NodeId, and the
\* SourceNode behind it was read out of the bytes of the Guid.
GuidNodeIDShiftsFields ==
  /\ kpc = "wireDecoded" /\ fnArg.eventType = GuidNodeID
  /\ fnArg.additionalData = U32Bytes(0)
  /\ fnRet.l.EventTypeNode = NewNumericNodeID(0, 0)
  /\ fnRet.l.SourceNode # NewNumericNodeID(1, 100)

\* ------------------------------------------------------------ C26
\* The instant is a whole number of 100 ns ticks from the Unix epoch; the
\* unset instant, midnight of January 1 of year 1, is one.
IsTickAligned(t) ==
  t.zero \/ Mul64(Div64(t.nanos, NanosPerTick), NanosPerTick) = t.nanos

NonPositive64(a) == IsNeg64(a) \/ IsZero64(a)

\* C26: the ticks written for an instant are its 100 ns count plus the
\* fixed offset and the instant read is the ticks less that offset, so an
\* instant that is a whole number of ticks comes back from Encode then
\* Decode unchanged; a tick count that is not positive decodes to the unset
\* instant.
TimeConversion ==
  /\ kpc = "timeConverted" =>
       /\ fnBytes = Add64(Div64(fnArg.nanos, NanosPerTick), unixToOpcuaTicksOffset)
       /\ IsTickAligned(fnArg) => fnRet = fnArg
  /\ (kpc = "wireDecoded" /\ NonPositive64(fnArg.ticks)) =>
       fnRet.l.Time = ZeroTime

\* The unset instant was written as a positive tick count and read back as
\* an instant that is set.
UnsetInstantComesBackSet ==
  /\ kpc = "timeConverted"
  /\ fnArg = ZeroTime
  /\ ~NonPositive64(fnBytes)
  /\ ~fnRet.zero

\* ------------------------------------------------------------ C27
\* The attribute counts whose top bit is set: 0xFFFFFFFF and 0x80000000.
NegativeCounts == {U32Bytes(-1), <<0, 0, 0, 128>>}

\* C27: an attribute count that is negative when read as a signed 32-bit
\* value counts as zero: Decode reads no attribute entry, stops right
\* behind the count, leaves AdditionalData nil and reports no error.
NegativeCountReadsNothing ==
  (kpc = "wireDecoded" /\ fnArg.eventType \in KnownEventTypes
     /\ fnArg.additionalData \in NegativeCounts) =>
    /\ ~fnRet.err
    /\ fnRet.n = Len(fnBytes)
    /\ fnRet.l.AdditionalData = NilMap

\* Decode returned from a record whose attribute count is 0x80000000.
LeastCountDecoded ==
  /\ kpc = "wireDecoded" /\ fnArg.eventType \in KnownEventTypes
  /\ fnArg.additionalData = <<0, 0, 0, 128>>
  /\ ~fnRet.err
  /\ fnRet.l.Message = <<109>>

\* ------------------------------------------------------------ receiver
\* The logs receiver: newScraper, Start, the runCollection goroutine with
\* its collectAndConsume calls, and Shutdown. Time is counted in collection
\* intervals; a collectAndConsume call is a record of the list cycles.

\* config.CollectionInterval, the unit of the clock.
Interval == 1

\* The clock stops at MaxClock, and with it the ticks: runCollection begins
\* at most MaxClock collectAndConsume calls. The client holds
\* ScraperSources LogObject nodes.
MaxClock == 3

ScraperSources == 2

\* collectAndConsume has been entered: scrape is at its connection test.
NewCycle ==
  [pos |-> "scrape", result |-> "running", startTime |-> 0, endTime |-> 0,
   connects |-> 0, src |-> 0, out |-> 0, got |-> FALSE, partial |-> FALSE,
   rejected |-> FALSE]

\* newLogsReceiver and Start have returned: the cursor is one interval
\* before the clock, the client is connected, the goroutine is launched.
InitScraper ==
  /\ InitRetriever
  /\ kpc = "off" /\ lr = ZeroLogRecord /\ objects = <<>>
  /\ CodecIdle /\ FnIdle
  /\ now = Interval /\ lastCollectTime = now - Interval
  /\ sClient = "connected" /\ rpos = "start"
  /\ tickerC = FALSE /\ ctxDone = FALSE /\ sdpos = "none" /\ cycles = <<>>
  /\ LoopOff
  /\ ClientCallsOff

ScraperFrame == UNCHANGED <<rvars, kvars, lvars, dvars>>

\* One interval passes; the ticker of a running runCollection puts a tick
\* into ticker.C, which holds one tick.
TimePasses ==
  /\ rpos # "off" /\ now < MaxClock
  /\ now' = now + Interval
  /\ tickerC' = (tickerC \/ rpos \in {"collecting", "select"})
  /\ UNCHANGED <<lastCollectTime, sClient, rpos, ctxDone, sdpos, cycles>>
  /\ ScraperFrame

\* The server or the network drops the session.
ConnectionLost ==
  /\ sClient = "connected"
  /\ sClient' = "lost"
  /\ UNCHANGED <<now, lastCollectTime, rpos, tickerC, ctxDone, sdpos, cycles>>
  /\ ScraperFrame

\* runCollection: the ticker is made, then the initial collectAndConsume.
RunCollection ==
  /\ rpos = "start"
  /\ rpos' = "collecting"
  /\ cycles' = Append(cycles, NewCycle)
  /\ UNCHANGED <<now, lastCollectTime, sClient, tickerC, ctxDone, sdpos>>
  /\ ScraperFrame

\* A loop that takes ticks while a collectAndConsume call is running.
LoopAlwaysAtSelect(pos) == pos \in {"select", "collecting"}

\* runCollection is at its select: no collectAndConsume call is running.
LoopAtSelect(pos) == pos = "select"

\* case <-ticker.C: r.collectAndConsume(ctx)
TakeTick ==
  /\ LoopAtSelect(rpos) /\ tickerC
  /\ tickerC' = FALSE
  /\ rpos' = "collecting"
  /\ cycles' = Append(cycles, NewCycle)
  /\ UNCHANGED <<now, lastCollectTime, sClient, ctxDone, sdpos>>
  /\ ScraperFrame

\* case <-ctx.Done(): return; the deferred calls stop the ticker and close
\* r.done.
TakeDone ==
  /\ rpos = "select" /\ ctxDone
  /\ rpos' = "done"
  /\ UNCHANGED <<now, lastCollectTime, sClient, tickerC, ctxDone, sdpos, cycles>>
  /\ ScraperFrame

\* What a step of collectAndConsume call k leaves alone.
CycleFrame == UNCHANGED <<now, tickerC, ctxDone, sdpos>> /\ ScraperFrame

\* collectAndConsume call k returns to the loop of runCollection; the
\* locals of GetRecords are gone.
Over(c, result) ==
  [c EXCEPT !.pos = "over", !.result = result, !.connects = 0, !.src = 0,
            !.got = FALSE]

\* scrape finds IsConnected() false (s.client itself is set by start and
\* never nil afterwards) and calls Connect once; "failed to reconnect" is
\* returned when Connect fails. Connect fails before it has a new handle
\* (endpoint lookup, endpoint selection, opcua.NewClient): c.client stays
\* as it was. A cancelled context fails the endpoint lookup.
\* A scrape that goes on to GetRecords after a Connect that failed.
ProceedAfterFailedConnect(c) ==
  [c EXCEPT !.pos = "getRecords", !.connects = @ + 1]

\* return plog.NewLogs(), fmt.Errorf("failed to reconnect: %w", err)
AfterFailedConnect(c) ==
  [Over(c, "reconnectFailed") EXCEPT !.connects = c.connects + 1]

ReconnectFailsEarly(k) ==
  /\ cycles[k].pos = "scrape" /\ sClient # "connected"
  /\ cycles' = [cycles EXCEPT ![k] = AfterFailedConnect(@)]
  /\ rpos' = "select"
  /\ UNCHANGED <<lastCollectTime, sClient>>
  /\ CycleFrame

\* Connect fails after c.client = client: the session does not come up.
ReconnectFailsAtSession(k) ==
  /\ cycles[k].pos = "scrape" /\ sClient # "connected" /\ ~ctxDone
  /\ cycles' = [cycles EXCEPT ![k] = AfterFailedConnect(@)]
  /\ rpos' = "select"
  /\ sClient' = "lost"
  /\ UNCHANGED lastCollectTime
  /\ CycleFrame

\* Connect fails after the session has come up: neither discovery nor the
\* ServerLog fallback finds a node. c.logObjectIDs keeps the nodes of the
\* Connect of start.
ReconnectFailsAtDiscovery(k) ==
  /\ cycles[k].pos = "scrape" /\ sClient # "connected" /\ ~ctxDone
  /\ cycles' = [cycles EXCEPT ![k] = AfterFailedConnect(@)]
  /\ rpos' = "select"
  /\ sClient' = "connected"
  /\ UNCHANGED lastCollectTime
  /\ CycleFrame

\* scrape: the client is connected, or Connect succeeds; endTime :=
\* time.Now(), startTime := s.lastCollectTime.
ScrapeWindow(k) ==
  /\ cycles[k].pos = "scrape"
  /\ sClient = "connected" \/ ~ctxDone
  /\ sClient' = "connected"
  /\ cycles' = [cycles EXCEPT ![k].pos = "getRecords",
                              ![k].connects = IF sClient = "connected"
                                              THEN @ ELSE @ + 1,
                              ![k].startTime = lastCollectTime,
                              ![k].endTime = now]
  /\ UNCHANGED <<lastCollectTime, rpos>>
  /\ CycleFrame

\* A scrape that moves the cursor whatever GetRecords returned.
CursorAlwaysEndTime(err, last, endTime) == endTime

\* scrape: s.lastCollectTime = endTime is reached only with a nil error.
CursorAfter(err, last, endTime) == IF err THEN last ELSE endTime

\* GetRecords finds c.client nil: "client not connected"; scrape returns
\* the error.
GetRecordsNotConnected(k) ==
  /\ cycles[k].pos = "getRecords" /\ sClient = "nil"
  /\ cycles' = [cycles EXCEPT ![k] = Over(@, "getRecordsError")]
  /\ lastCollectTime' = CursorAfter(TRUE, lastCollectTime, cycles[k].endTime)
  /\ rpos' = "select"
  /\ UNCHANGED sClient
  /\ CycleFrame

\* GetRecords takes the client handle and begins the range over the
\* LogObject nodes.
GetRecordsEnter(k) ==
  /\ cycles[k].pos = "getRecords" /\ sClient # "nil"
  /\ cycles' = [cycles EXCEPT ![k].pos = "source", ![k].src = 1]
  /\ UNCHANGED <<lastCollectTime, sClient, rpos>>
  /\ CycleFrame

\* callGetRecordsMethod reads c.client anew, without the mutex, and finds
\* it nil: c.client.Call is a method call on a nil *opcua.Client, and the
\* nil pointer dereference ends the process.
CallOnNilClient(k) ==
  /\ cycles[k].pos = "source" /\ cycles[k].src <= ScraperSources
  /\ sClient = "nil"
  /\ cycles' = [cycles EXCEPT ![k].pos = "nilCall"]
  /\ rpos' = "crashed"
  /\ UNCHANGED <<lastCollectTime, sClient>>
  /\ CycleFrame

\* The pagination loop sends a Call to the source at hand, on the handle
\* c.client holds at that moment.
IssueCall(k) ==
  /\ cycles[k].pos = "source" /\ cycles[k].src <= ScraperSources
  /\ sClient # "nil"
  /\ cycles' = [cycles EXCEPT ![k].pos = "called", ![k].out = @ + 1]
  /\ UNCHANGED <<lastCollectTime, sClient, rpos>>
  /\ CycleFrame

\* The answers to a Call: "more" is a page with a continuation point below
\* the quota, "last" a page without one, "empty" a page without records or
\* continuation point, "quota" a page that fills the quota while the source
\* holds more, "fail" an error of callGetRecordsMethod.
Answers == {"more", "last", "empty", "quota", "fail"}

NextSource(c) == [c EXCEPT !.pos = "source", !.src = @ + 1]

Answered(c, answer) ==
  IF answer = "more" THEN [c EXCEPT !.pos = "source", !.got = TRUE]
  ELSE IF answer = "last" THEN NextSource([c EXCEPT !.got = TRUE])
  ELSE IF answer = "empty" THEN NextSource(c)
  ELSE IF answer = "quota" THEN NextSource([c EXCEPT !.got = TRUE, !.partial = TRUE])
  ELSE NextSource([c EXCEPT !.partial = TRUE])

\* The Call returns; the loop goes on with the source or breaks.
AnswerCall(k) ==
  /\ cycles[k].pos = "called"
  /\ \E answer \in Answers :
       /\ answer # "fail" => (sClient = "connected" /\ ~ctxDone)
       /\ cycles' = [cycles EXCEPT ![k] = Answered([@ EXCEPT !.out = @ - 1], answer)]
  /\ UNCHANGED <<lastCollectTime, sClient, rpos>>
  /\ CycleFrame

\* A collectAndConsume that hands every batch to ConsumeLogs.
HasLogsAlways(c) == TRUE

\* logs.LogRecordCount() != 0: TransformLogs makes one log record of every
\* record GetRecords returned.
HasLogs(c) == c.got

\* GetRecords returns allRecords and a nil error; scrape moves the cursor
\* and transforms the records; collectAndConsume returns when there are
\* none and calls ConsumeLogs otherwise.
GetRecordsReturns(k) ==
  /\ cycles[k].pos = "source" /\ cycles[k].src > ScraperSources
  /\ lastCollectTime' = CursorAfter(FALSE, lastCollectTime, cycles[k].endTime)
  /\ cycles' = [cycles EXCEPT ![k] = IF HasLogs(@)
                                     THEN [@ EXCEPT !.pos = "consume",
                                                    !.result = "collected"]
                                     ELSE Over(@, "collected")]
  /\ rpos' = IF HasLogs(cycles[k]) THEN rpos ELSE "select"
  /\ UNCHANGED sClient
  /\ CycleFrame

\* ConsumeLogs returns; its error is logged.
ConsumeLogsReturns(k) ==
  /\ cycles[k].pos = "consume"
  /\ \E ok \in BOOLEAN :
       cycles' = [cycles EXCEPT ![k] = Over([@ EXCEPT !.rejected = ~ok],
                                            "collected")]
  /\ rpos' = "select"
  /\ UNCHANGED <<lastCollectTime, sClient>>
  /\ CycleFrame

\* Shutdown: r.cancel().
ShutdownCancel ==
  /\ sdpos = "none" /\ rpos \notin {"off", "start"}
  /\ ctxDone' = TRUE
  /\ sdpos' = "waiting"
  /\ UNCHANGED <<now, lastCollectTime, sClient, rpos, tickerC, cycles>>
  /\ ScraperFrame

\* Shutdown: r.done is closed, or the wait runs out; scraper.shutdown
\* disconnects the client.
ShutdownDisconnect ==
  /\ sdpos = "waiting"
  /\ sdpos' = "over"
  /\ sClient' = "nil"
  /\ UNCHANGED <<now, lastCollectTime, rpos, tickerC, ctxDone, cycles>>
  /\ ScraperFrame

NextScraper ==
  \/ TimePasses
  \/ ConnectionLost
  \/ RunCollection
  \/ TakeTick
  \/ TakeDone
  \/ \E k \in 1..Len(cycles) : ReconnectFailsEarly(k)
  \/ \E k \in 1..Len(cycles) : ReconnectFailsAtSession(k)
  \/ \E k \in 1..Len(cycles) : ReconnectFailsAtDiscovery(k)
  \/ \E k \in 1..Len(cycles) : ScrapeWindow(k)
  \/ \E k \in 1..Len(cycles) : GetRecordsNotConnected(k)
  \/ \E k \in 1..Len(cycles) : GetRecordsEnter(k)
  \/ \E k \in 1..Len(cycles) : CallOnNilClient(k)
  \/ \E k \in 1..Len(cycles) : IssueCall(k)
  \/ \E k \in 1..Len(cycles) : AnswerCall(k)
  \/ \E k \in 1..Len(cycles) : GetRecordsReturns(k)
  \/ \E k \in 1..Len(cycles) : ConsumeLogsReturns(k)
  \/ ShutdownCancel
  \/ ShutdownDisconnect

SpecScraper == InitScraper /\ [][NextScraper]_vars

\* ------------------------------------------------------------ C21
RECURSIVE OutstandingCalls(_)
OutstandingCalls(cs) ==
  IF cs = <<>> THEN 0 ELSE Head(cs).out + OutstandingCalls(Tail(cs))

\* C21: at most one remote call is outstanding at any time, the sources of
\* a cycle are visited one after the other, and a collectAndConsume call
\* begins only after every earlier one, its scrape and its ConsumeLogs, has
\* returned.
CyclesNeverOverlap ==
  /\ OutstandingCalls(cycles) <= 1
  /\ \A k \in 1..Len(cycles) :
       /\ cycles[k].out = 1 <=> cycles[k].pos = "called"
       /\ \A j \in 1..(k - 1) : cycles[j].pos = "over"

\* The second cycle has a call out at its second source; the first cycle
\* went through ConsumeLogs.
SecondCycleCalling ==
  /\ Len(cycles) >= 2
  /\ cycles[1].result = "collected" /\ cycles[1].pos = "over"
  /\ cycles[2].pos = "called" /\ cycles[2].src = 2

\* ------------------------------------------------------------ C28
\* scrape has taken its window in this collectAndConsume call.
HasWindow(c) == c.pos # "scrape" /\ c.result # "reconnectFailed"

\* The endTime of the last of the first k cycles whose GetRecords returned
\* no error; the cursor of newScraper when there is none.
RECURSIVE EndOfLastCollected(_, _)
EndOfLastCollected(cs, k) ==
  IF k = 0 THEN 0
  ELSE IF cs[k].result = "collected" THEN cs[k].endTime
  ELSE EndOfLastCollected(cs, k - 1)

\* C28: lastCollectTime is the endTime of the last scrape whose GetRecords
\* returned no error, a failed scrape leaves it alone, and the window of a
\* scrape starts where the window of the last successful scrape ended.
CursorIsLastSuccess ==
  /\ lastCollectTime = EndOfLastCollected(cycles, Len(cycles))
  /\ \A k \in 1..Len(cycles) :
       HasWindow(cycles[k]) =>
         cycles[k].startTime = EndOfLastCollected(cycles, k - 1)

\* A successful scrape, a failed reconnect, then a successful scrape whose
\* window starts at the end of the first.
WindowAfterFailedScrape ==
  /\ Len(cycles) = 3
  /\ cycles[1].result = "collected"
  /\ cycles[2].result = "reconnectFailed"
  /\ cycles[3].result = "collected"
  /\ cycles[3].startTime = cycles[1].endTime
  /\ cycles[3].endTime > cycles[3].startTime
  /\ lastCollectTime = cycles[3].endTime

\* ------------------------------------------------------------ C30
\* Records of the window of this cycle were not delivered downstream: a
\* source's call failed, the quota cut a source short, or ConsumeLogs
\* rejected the batch.
Undelivered(c) ==
  /\ c.pos = "over" /\ c.result = "collected"
  /\ c.partial \/ c.rejected
  /\ c.startTime < c.endTime

\* C30: the window of a cycle whose records were not all delivered is
\* covered again: a later cycle's window starts at or before its start, or
\* the cursor has not moved past its start, so that the next cycle's will.
NoWindowSkipped ==
  \A k \in 1..Len(cycles) :
    Undelivered(cycles[k]) =>
      \/ lastCollectTime <= cycles[k].startTime
      \/ \E j \in (k + 1)..Len(cycles) :
           HasWindow(cycles[j]) /\ cycles[j].startTime <= cycles[k].startTime

\* ConsumeLogs rejected the batch of the first cycle, and the window of
\* the second cycle starts at the end of the first.
RejectedWindowPassed ==
  /\ Len(cycles) >= 2
  /\ Undelivered(cycles[1]) /\ cycles[1].rejected
  /\ HasWindow(cycles[2])
  /\ cycles[2].startTime = cycles[1].endTime

\* ------------------------------------------------------------ pagination loop
\* The pagination loop of GetRecords for one source, with
\* callGetRecordsMethod inside it, against a server that may answer a Call
\* in any way the protocol allows.

\* The quota is at most MaxLoopQuota; a page holds at most MaxPage records
\* that parse; the server hands out the continuation points 1..Tokens; the
\* count of Calls stops at CallsCap.
MaxLoopQuota == 3

MaxPage == 2

Tokens == 2

CallsCap == 4

\* continuationPoint := []byte(nil); nodeRecords := 0
InitLoop ==
  /\ InitRetriever
  /\ kpc = "off" /\ lr = ZeroLogRecord /\ objects = <<>>
  /\ CodecIdle /\ FnIdle
  /\ now = 0 /\ lastCollectTime = 0 /\ sClient = "nil" /\ rpos = "off"
  /\ tickerC = FALSE /\ ctxDone = FALSE /\ sdpos = "none" /\ cycles = <<>>
  /\ lpos = "loop" /\ lRecordsPerNode \in 1..MaxLoopQuota /\ lNodeRecords = 0
  /\ lContinuationPoint = 0 /\ lCallCP = 0 /\ lCalls = 0
  /\ ClientCallsOff

LoopFrame == UNCHANGED <<rvars, kvars, wvars, dvars, lRecordsPerNode>>

CountCall(n) == IF n < CallsCap THEN n + 1 ELSE n

\* The loop calls callGetRecordsMethod with continuationPoint, which sends
\* the Call.
LoopCall ==
  /\ lpos = "loop"
  /\ lpos' = "called"
  /\ lCallCP' = lContinuationPoint
  /\ lCalls' = CountCall(lCalls)
  /\ UNCHANGED <<lNodeRecords, lContinuationPoint>>
  /\ LoopFrame

\* The Call fails, the status is bad and not
\* StatusBadContinuationPointInvalid, the output is short or does not
\* parse, or the status is StatusBadContinuationPointInvalid for a Call
\* without continuation point: err != nil, break.
LoopCallFails ==
  /\ lpos = "called"
  /\ lpos' = "done"
  /\ UNCHANGED <<lNodeRecords, lContinuationPoint, lCallCP, lCalls>>
  /\ LoopFrame

\* StatusBadContinuationPointInvalid for a Call with a continuation point:
\* callGetRecordsMethod calls itself with nil.
LoopCallRestarts ==
  /\ lpos = "called" /\ lCallCP # 0
  /\ lCallCP' = 0
  /\ lCalls' = CountCall(lCalls)
  /\ UNCHANGED <<lpos, lNodeRecords, lContinuationPoint>>
  /\ LoopFrame

\* The loop is left after a page: no continuation point came back, or the
\* quota is reached.
LoopBreaks(nextContinuationPoint, records, quota) ==
  nextContinuationPoint = 0 \/ records >= quota

\* StatusOK with n records that parse and a continuation point (0: none).
LoopPage ==
  /\ lpos = "called"
  /\ \E n \in 0..MaxPage, nextContinuationPoint \in 0..Tokens :
       /\ lNodeRecords' = lNodeRecords + n
       /\ IF LoopBreaks(nextContinuationPoint, lNodeRecords + n, lRecordsPerNode)
          THEN lpos' = "done" /\ UNCHANGED lContinuationPoint
          ELSE lpos' = "loop" /\ lContinuationPoint' = nextContinuationPoint
  /\ UNCHANGED <<lCallCP, lCalls>>
  /\ LoopFrame

NextLoop ==
  \/ LoopCall
  \/ LoopCallFails
  \/ LoopCallRestarts
  \/ LoopPage

\* Every Call is answered: the request timeout of the client ends a Call
\* the server leaves open.
SpecLoop == InitLoop /\ [][NextLoop]_vars /\ WF_vars(NextLoop)

\* ------------------------------------------------------------ C29
\* C29: whatever the server answers, the pagination loop of a source is
\* left after a bounded number of Calls.
LoopTerminates == <>(lpos = "done")

\* CallsCap Calls have been sent and the loop has not taken one record:
\* every page so far was empty and came with a continuation point, or was
\* asked for again after a stale signal.
CallsWithoutProgress ==
  /\ lpos = "called" /\ lCalls = CallsCap
  /\ lNodeRecords = 0

\* ------------------------------------------------------------ C31
\* C31: once Shutdown has returned, no collectAndConsume call begins and
\* none that is under way takes a further step other than its return: no
\* scrape goes on, no Call is sent, ConsumeLogs is not called.
ShutdownIsFinal ==
  [][sdpos = "over" =>
       /\ Len(cycles') = Len(cycles)
       /\ \A k \in 1..Len(cycles) :
            cycles'[k].pos \in {cycles[k].pos, "over"}]_vars

\* Shutdown has returned, through the end of its wait, while a
\* collectAndConsume call is under way.
ShutdownReturnedMidCycle ==
  /\ sdpos = "over" /\ rpos = "collecting"
  /\ \E k \in 1..Len(cycles) : cycles[k].pos \in {"source", "consume"}

\* ------------------------------------------------------------ C32
\* C32: once the context of the receiver is cancelled, runCollection
\* begins no further collectAndConsume call, a pending tick
\* notwithstanding.
NoCycleAfterCancel == [][ctxDone => Len(cycles') = Len(cycles)]_vars

\* runCollection is at its select with the context cancelled and a tick
\* waiting in ticker.C.
CancelledWithTickPending == rpos = "select" /\ ctxDone /\ tickerC

\* ------------------------------------------------------------ C33
\* C33: no Call of a retrieval is made on a nil client handle, a
\* Disconnect during the retrieval notwithstanding.
NoCallOnNilClient == \A k \in 1..Len(cycles) : cycles[k].pos # "nilCall"

\* Shutdown disconnected the client during a retrieval, and the retrieval
\* made its next Call on the nil handle.
NilCallAfterDisconnect ==
  /\ sdpos = "over" /\ sClient = "nil"
  /\ \E k \in 1..Len(cycles) : cycles[k].pos = "nilCall" /\ cycles[k].src = 2

\* ------------------------------------------------------------ C34
\* C34: a Connect that returns an error leaves IsConnected() false.
ConnectErrorLeavesDisconnected ==
  [][\A k \in 1..Len(cycles) :
       (cycles[k].pos = "scrape" /\ cycles'[k].result = "reconnectFailed") =>
         sClient' # "connected"]_vars

\* The Connect of the last scrape returned an error and IsConnected() is
\* true.
FailedConnectLeftSession ==
  /\ cycles # <<>>
  /\ cycles[Len(cycles)].result = "reconnectFailed"
  /\ sClient = "connected"

\* ------------------------------------------------------------ C35
\* C35: a scrape that finds the client not connected calls Connect once.
\* When Connect fails the scrape returns without a GetRecords call and
\* without a window, and lastCollectTime stays; when it succeeds the
\* window starts at lastCollectTime, which stays as well.
ReconnectOnce ==
  /\ \A k \in 1..Len(cycles) :
       /\ cycles[k].connects <= 1
       /\ cycles[k].result = "reconnectFailed" =>
            /\ cycles[k].pos = "over" /\ cycles[k].connects = 1
            /\ cycles[k].endTime = 0 /\ cycles[k].out = 0
       /\ (cycles[k].connects = 1 /\ cycles[k].pos = "getRecords") =>
            cycles[k].startTime = lastCollectTime
  /\ lastCollectTime = EndOfLastCollected(cycles, Len(cycles))

\* The first scrape reconnected and failed, the second reconnected and
\* has its window, which starts at the cursor of newScraper.
ReconnectedScrape ==
  /\ Len(cycles) = 2
  /\ cycles[1].result = "reconnectFailed"
  /\ cycles[2].pos = "getRecords" /\ cycles[2].connects = 1
  /\ cycles[2].startTime = 0 /\ cycles[2].endTime > 1

\* ------------------------------------------------------------ C37
\* C37: ConsumeLogs is called only by a cycle whose scrape returned
\* records and no error, and once: a cycle that has called it returns, and
\* a cycle that has returned takes no further step.
ConsumeOncePerCycle ==
  [][\A k \in 1..Len(cycles) :
       /\ (cycles'[k].pos = "consume" /\ cycles[k].pos # "consume") =>
            /\ cycles[k].pos = "source" /\ cycles[k].got
            /\ cycles'[k].result = "collected"
       /\ cycles[k].pos = "consume" => cycles'[k].pos \in {"consume", "over"}
       /\ cycles[k].pos = "over" => cycles'[k] = cycles[k]]_vars

\* ConsumeLogs is under way with the records of a cycle in which a source
\* failed or was cut short by its quota.
ConsumingPartialBatch ==
  /\ cycles # <<>>
  /\ cycles[Len(cycles)].pos = "consume"
  /\ cycles[Len(cycles)].got /\ cycles[Len(cycles)].partial

\* ------------------------------------------------------------ C36
\* C36: with a server that keeps to MaxReturnRecords, a retrieval returns
\* at most maxRecords records, and at most the quota from every source,
\* whatever the number of sources.
RetrievalWithinMaxRecords ==
  (pc = "returned" /\ retErr = "nil" /\ srvFlavour # "greedy") =>
    /\ Len(allRecords) <= maxRecords
    /\ \A i \in 1..Len(gIDs) : RecordsFrom(i) <= recordsPerNode

\* GetRecords(maxRecords = 1) over two sources returned two records, one
\* from each.
MoreSourcesThanMaxRecords ==
  /\ pc = "returned" /\ retErr = "nil" /\ srvFlavour = "clean"
  /\ maxRecords = 1 /\ Len(gIDs) = 2 /\ recordsPerNode = 1
  /\ RecordsFrom(1) = 1 /\ RecordsFrom(2) = 1
  /\ Len(allRecords) = 2

\* The tier label severityToText gives to the records of a configured level;
\* "Trace" and unknown names have no tier.
TierOf(level) ==
  CASE level = "Debug" -> "Debug"
    [] level = "Info" -> "Information"
    [] level \in {"Warn", "Warning"} -> "Warning"
    [] level = "Error" -> "Error"
    [] level \in {"Fatal", "Emergency"} -> "Emergency"
    [] OTHER -> "none"

\* The documented level order, lowest first.
LevelOrder == <<"Trace", "Debug", "Info", "Warn", "Error", "Fatal">>

\* C39: for every configured level name the threshold sent to the server is
\* no greater than any severity that severityToText classifies at that
\* level, and the thresholds do not decrease along the order Trace, Debug,
\* Info, Warn, Error, Fatal.
MinSeverityIsMinimum ==
  kpc = "levelled" =>
    /\ \A sev \in SampleSeverities :
         severityToText(sev) = TierOf(fnArg) => fnRet <= sev
    /\ \A i \in 1..Len(LevelOrder) : \A j \in i..Len(LevelOrder) :
         LevelOrder[i] = fnArg => fnRet <= getMinSeverityValue(LevelOrder[j])

\* C39 witness: level "Warn" gives the threshold 201 although the severities
\* 151..200 are classified "Warning".
WarnThresholdAboveWarnings ==
  /\ kpc = "levelled"
  /\ fnArg = "Warn"
  /\ fnRet = 201
  /\ severityToText(151) = "Warning"

\* ------------------------------------------------------------ client calls
\* Connect, Disconnect and GetRecords called one after the other on one
\* opcuaClient; each holds c.mu while it reads or writes c.client and
\* c.logObjectIDs.
InitClient ==
  /\ InitRetriever
  /\ kpc = "off" /\ lr = ZeroLogRecord /\ objects = <<>>
  /\ CodecIdle /\ FnIdle
  /\ now = 0 /\ lastCollectTime = 0 /\ sClient = "nil" /\ rpos = "off"
  /\ tickerC = FALSE /\ ctxDone = FALSE /\ sdpos = "none" /\ cycles = <<>>
  /\ LoopOff
  /\ ClientCallsOff

ClientFrame == UNCHANGED <<gvars, evars, hvars, kvars, wvars, lvars>>

Returned(op, ret) == [op |-> op, ret |-> ret, closed |-> FALSE, issued |-> FALSE]

\* The errors Connect returns before c.client is assigned.
EarlyConnectErrors ==
  {"failed to get endpoints", "no endpoints available",
   "no suitable endpoint found", "failed to create OPC UA client"}

\* Connect returns before c.client = client.
ConnectReturnsEarly ==
  /\ \E err \in EarlyConnectErrors :
       lastCall' = Returned("Connect", err)
  /\ UNCHANGED <<cvars, session, sinceDisconnect>>
  /\ ClientFrame

\* Connect assigns c.client, then c.client.Connect fails.
ConnectSessionFails ==
  /\ client' = "open"
  /\ session' = "closed"
  /\ lastCall' = Returned("Connect", "failed to connect to OPC UA server")
  /\ UNCHANGED <<logObjectIDs, sinceDisconnect>>
  /\ ClientFrame

\* Connect assigns c.client, the session comes up, discoverLogObjects and
\* tryDefaultServerLog both fail: c.logObjectIDs is not assigned.
ConnectDiscoveryFails ==
  /\ client' = "open"
  /\ session' = "connected"
  /\ lastCall' = Returned("Connect", "failed to discover any LogObject nodes")
  /\ UNCHANGED <<logObjectIDs, sinceDisconnect>>
  /\ ClientFrame

\* Connect runs to its end: discoverLogObjects or tryDefaultServerLog
\* assigns n >= 1 nodes.
ConnectReturnsNil ==
  /\ client' = "open"
  /\ \E n \in 1..MaxSources :
       logObjectIDs' = [i \in 1..n |-> i]
  /\ session' = "connected"
  /\ lastCall' = Returned("Connect", "nil")
  /\ sinceDisconnect' = FALSE
  /\ ClientFrame

\* Disconnect with c.client == nil: nothing to close.
DisconnectNoClient ==
  /\ client = "nil"
  /\ lastCall' = Returned("Disconnect", "nil")
  /\ sinceDisconnect' = TRUE
  /\ UNCHANGED <<cvars, session>>
  /\ ClientFrame

\* Disconnect with a handle: Close succeeds and c.client = nil.
DisconnectCloses ==
  /\ client = "open"
  /\ client' = "nil"
  /\ session' = "none"
  /\ lastCall' = [Returned("Disconnect", "nil") EXCEPT !.closed = TRUE]
  /\ sinceDisconnect' = TRUE
  /\ UNCHANGED logObjectIDs
  /\ ClientFrame

\* Disconnect with a handle: Close fails and the handle stays.
DisconnectCloseFails ==
  /\ client = "open"
  /\ lastCall' = [Returned("Disconnect", "failed to disconnect from OPC UA server")
                    EXCEPT !.closed = TRUE]
  /\ UNCHANGED <<cvars, session, sinceDisconnect>>
  /\ ClientFrame

\* What GetRecords returns for the snapshot it takes: one of the two early
\* errors, or nil after the loop has called callGetRecordsMethod for each
\* node.
GetRecordsOutcome(c, ids) ==
  IF c = "nil" THEN Returned("GetRecords", "client not connected")
  ELSE IF Len(ids) = 0 THEN Returned("GetRecords", "no LogObject nodes configured")
  ELSE [Returned("GetRecords", "nil") EXCEPT !.issued = TRUE]

ClientGetRecords ==
  /\ lastCall' = GetRecordsOutcome(client, logObjectIDs)
  /\ UNCHANGED <<cvars, session, sinceDisconnect>>
  /\ ClientFrame

\* IsConnected: c.client != nil && c.client.State() == opcua.Connected.
IsConnected ==
  /\ lastCall' = Returned("IsConnected",
                          IF client # "nil" /\ session = "connected"
                          THEN "true" ELSE "false")
  /\ UNCHANGED <<cvars, session, sinceDisconnect>>
  /\ ClientFrame

\* The server or the network ends the session of the handle.
SessionEnds ==
  /\ session = "connected"
  /\ session' = "closed"
  /\ UNCHANGED <<cvars, lastCall, sinceDisconnect>>
  /\ ClientFrame

NextClient ==
  \/ ConnectReturnsEarly
  \/ ConnectSessionFails
  \/ ConnectDiscoveryFails
  \/ ConnectReturnsNil
  \/ DisconnectNoClient
  \/ DisconnectCloses
  \/ DisconnectCloseFails
  \/ ClientGetRecords
  \/ IsConnected
  \/ SessionEnds

SpecClient == InitClient /\ [][NextClient]_vars

\* C38: a Disconnect on a client without a handle returns nil and calls no
\* Close, and once a Disconnect has returned nil, GetRecords returns
\* "client not connected" and issues no call until a Connect has returned
\* nil.
DisconnectedUntilConnect ==
  /\ [][(client = "nil" /\ lastCall'.op = "Disconnect" /\ lastCall' # lastCall) =>
         (lastCall'.ret = "nil" /\ ~lastCall'.closed /\ client' = "nil")]_vars
  /\ [](lastCall.op = "GetRecords" /\ sinceDisconnect =>
         lastCall.ret = "client not connected" /\ ~lastCall.issued)

\* C38 witness: GetRecords has gone through to its calls although the only
\* Connect since the Disconnect failed.
CallsAfterFailedReconnect ==
  /\ lastCall.op = "GetRecords"
  /\ sinceDisconnect
  /\ lastCall.issued
  /\ lastCall.ret = "nil"

====
